---- MODULE Spec2Model ----
(***************************************************************************)
(* Verification model of the kart engine-analysis core:                    *)
(*   - the calibration engine (CalibrationManager) and the recording hook  *)
(*     that drives it (useSensorRecording),                                *)
(*   - gear detection, the logger power engine and the RPM binner,         *)
(*   - the CSV decoder, the metadata parser and the lap extractor.         *)
(* Floating-point quantities are carried as integers in the fixed units    *)
(* named next to each operator.                                            *)
(***************************************************************************)
EXTENDS Integers, Sequences, FiniteSets, TLC

VARIABLES
    \* ---- CalibrationManager (calibration.ts) ----
    gravitySamples,      \* length of this.gravitySamples
    forwardSamples,      \* length of this.forwardSamples
    gravityVector,       \* "null" or "set"
    buildResult,         \* outcome of the last buildCalibrationData call, "none" otherwise
    pushedGravity,       \* history: gravity samples pushed since the last reset
    pushedForward,       \* history: forward samples pushed since the last reset
    resetDone,           \* history: reset() was called on this manager
    \* ---- useSensorRecording + sensorStore ----
    recordingState,      \* store.recordingState
    error,               \* store.error: "null" or the message kind
    calibration,         \* store.calibration: "null" or "data"
    calibrationProgress, \* store.calibrationProgress in 1/1000
    calibrationRef,      \* calibrationRef.current: "null" or "manager"
    pendingStarts,       \* startCalibration calls suspended in requestPermissions
    calSubs,             \* live accelerometer subscriptions of handleCalibrationReading
    recSubs,             \* live accelerometer subscriptions of the recording callback
    accelCleanupRef,     \* what accelCleanupRef.current would unsubscribe
    now,                 \* Date.now(), ms
    recordingStartRef,   \* recordingStartRef.current, ms
    lastSampleTimeRef,   \* lastSampleTimeRef.current, ms
    sampleBuffer,        \* store.sampleBuffer: the samples' timestamps, in buffer order
    recordingStartTime,  \* store.recordingStartTime: 0 for null
    recordingDuration,   \* store.recordingDuration, ms
    \* ---- pure components: the case under evaluation ----
    gearCase,            \* detectGear / getTotalRatio
    runCase,             \* extractLaps + runAnalysis
    csvCase,             \* parseCSV
    metaCase,            \* parseAIMMetadata
    lapCase,             \* lap markers + extractLaps
    calCase,             \* buildCalibrationData on concrete samples
    rerunCase,           \* runAnalysis called again on the inputs of runCase
    filterCase,          \* applyFiltering of the sensor power engine
    sensorCase,          \* processSensorData
    mapCase,             \* buildChannelMapping
    \* ---- useOfflineSync ----
    isOnline,            \* the hook's isOnline state
    pendingMutations,    \* localStorage['kart-code-pending-mutations']
    pendingCount,        \* the hook's pendingCount state
    syncStatus,          \* the hook's syncStatus state
    syncRuns,            \* syncPendingMutations calls suspended in processMutation
    mutationCount,       \* mutations queued so far
    processedMutations,  \* ids whose processMutation resolved
    \* ---- SyncManager (iOS) ----
    localSessions,       \* the stored LocalSensorSession records
    serverSessions,      \* the sessions createSensorSession created on the server
    sessionRuns,         \* syncPendingSessions calls suspended in a service call
    managerStatus,       \* SyncManager.syncStatus
    \* ---- Convex database ----
    sensorSessions,      \* the sensorSessions table; a document's id is its position
    sensorSamples,       \* the sensorSamples table in creation order
    chunkIds,            \* the number of sensorSamples documents ever inserted
    dbCalls,             \* the number of function calls made
    dbResult,            \* the last function call and its outcome
    \* ---- acquisition store ----
    acquisition          \* the fields of useAcquisitionStore that setFileData computes

engineVars == <<gravitySamples, forwardSamples, gravityVector, buildResult,
                pushedGravity, pushedForward, resetDone>>
recVars == <<now, recordingStartRef, lastSampleTimeRef, sampleBuffer, recordingStartTime,
             recordingDuration>>
hookVars == <<recordingState, error, calibration, calibrationProgress, calibrationRef,
              pendingStarts, calSubs, recSubs, accelCleanupRef, recVars>>
callVars == <<gearCase, runCase, csvCase, metaCase, lapCase, calCase, rerunCase, filterCase>>
syncVars == <<isOnline, pendingMutations, pendingCount, syncStatus, syncRuns, mutationCount,
              processedMutations>>
managerVars == <<localSessions, serverSessions, sessionRuns, managerStatus>>
dbVars == <<sensorSessions, sensorSamples, chunkIds, dbCalls, dbResult>>
moreVars == <<sensorCase, mapCase, syncVars, managerVars, dbVars, acquisition>>
fnVars == <<callVars, moreVars>>
vars == <<engineVars, hookVars, fnVars>>

\* A pure component that has not been called yet.
NoCase == [op |-> "none"]

Min(a, b) == IF a < b THEN a ELSE b
Max(a, b) == IF a > b THEN a ELSE b
Abs(a) == IF a < 0 THEN -a ELSE a

(***************************************************************************)
(* Calibration engine                                                      *)
(***************************************************************************)
GRAVITY_SAMPLES == 150
FORWARD_SAMPLES == 250
MIN_SIGNIFICANT == 20
MIN_PCA_SAMPLES == 10

\* The recording callback's rate limit, ms (useSensorRecording).
SAMPLE_RATE_MS == 20

\* How far past a phase minimum the model keeps pushing samples.
Overshoot == 2

\* Math.min(1, n / total), in 1/1000.
Progress(n, total) == Min(1000, (n * 1000) \div total)

\* Completion test that is satisfied one sample early.
isGravityCalibrationComplete_Early(g) == g >= GRAVITY_SAMPLES - 1

isGravityCalibrationComplete(g) == g >= GRAVITY_SAMPLES

isForwardCalibrationComplete(f) == f >= FORWARD_SAMPLES

\* computeGravityVector: null below the minimum, else the mean (stored in the field).
computeGravityVector(g) == IF g < GRAVITY_SAMPLES THEN "null" ELSE "set"

\* computeForwardFromPCA on n samples.
computeForwardFromPCA(n) == IF n < MIN_PCA_SAMPLES THEN "null" ELSE "vector"

\* computeForwardVector that forgets the forward-phase minimum.
computeForwardVector_NoMinimum(gv, f, sig) ==
    IF gv = "null" THEN "null"
    ELSE IF sig < MIN_SIGNIFICANT THEN computeForwardFromPCA(f)
    ELSE computeForwardFromPCA(sig)

\* computeForwardVector with gravity field gv, f buffered samples of which sig are
\* significant (|linear a| > 0.5).
computeForwardVector(gv, f, sig) ==
    IF gv = "null" \/ f < FORWARD_SAMPLES THEN "null"
    ELSE IF sig < MIN_SIGNIFICANT THEN computeForwardFromPCA(f)
    ELSE computeForwardFromPCA(sig)

\* buildCalibrationData: [result, gravityVector'].  The gravity field keeps the value
\* computeGravityVector stored even when the forward phase then fails.
buildCalibrationData(g, f, gv, sig) ==
    LET gvec == computeGravityVector(g) IN
    IF gvec = "null" THEN [result |-> "null", gv |-> gv]
    ELSE IF computeForwardVector(gvec, f, sig) = "null"
         THEN [result |-> "null", gv |-> gvec]
         ELSE [result |-> "calibration", gv |-> gvec]

\* A reset that forgets to clear the forward buffer.
ResetBuffers_KeepForward == [g |-> 0, f |-> forwardSamples, gv |-> "null"]

\* The buffers after reset().
ResetBuffers == [g |-> 0, f |-> 0, gv |-> "null"]

addGravitySample ==
    /\ gravitySamples < GRAVITY_SAMPLES + Overshoot
    /\ gravitySamples' = gravitySamples + 1
    /\ pushedGravity' = pushedGravity + 1
    /\ buildResult' = "none"
    /\ UNCHANGED <<forwardSamples, gravityVector, pushedForward, resetDone, hookVars,
                   fnVars>>

addForwardSample ==
    /\ forwardSamples < FORWARD_SAMPLES + Overshoot
    /\ forwardSamples' = forwardSamples + 1
    /\ pushedForward' = pushedForward + 1
    /\ buildResult' = "none"
    /\ UNCHANGED <<gravitySamples, gravityVector, pushedGravity, resetDone, hookVars,
                   fnVars>>

BuildCalibration ==
    \E sig \in {0, MIN_SIGNIFICANT - 1, forwardSamples} :
        /\ sig <= forwardSamples
        /\ LET b == buildCalibrationData(gravitySamples, forwardSamples, gravityVector, sig) IN
            /\ buildResult' = b.result
            /\ gravityVector' = b.gv
        /\ UNCHANGED <<gravitySamples, forwardSamples, pushedGravity, pushedForward,
                       resetDone, hookVars, fnVars>>

reset ==
    /\ gravitySamples' = ResetBuffers.g
    /\ forwardSamples' = ResetBuffers.f
    /\ gravityVector' = ResetBuffers.gv
    /\ pushedGravity' = 0
    /\ pushedForward' = 0
    /\ resetDone' = TRUE
    /\ buildResult' = "none"
    /\ UNCHANGED <<hookVars, fnVars>>

\* A fresh CalibrationManager, the store's initialState and the hook's refs.
Init ==
    /\ gravitySamples = 0
    /\ forwardSamples = 0
    /\ gravityVector = "null"
    /\ buildResult = "none"
    /\ pushedGravity = 0
    /\ pushedForward = 0
    /\ resetDone = FALSE
    /\ recordingState = "idle"
    /\ error = "null"
    /\ calibration = "null"
    /\ calibrationProgress = 0
    /\ calibrationRef = "null"
    /\ pendingStarts = 0
    /\ calSubs = 0
    /\ recSubs = 0
    /\ accelCleanupRef = "null"
    /\ now = SAMPLE_RATE_MS
    /\ recordingStartRef = 0
    /\ lastSampleTimeRef = 0
    /\ sampleBuffer = <<>>
    /\ recordingStartTime = 0
    /\ recordingDuration = 0
    /\ gearCase = NoCase
    /\ runCase = NoCase
    /\ csvCase = NoCase
    /\ metaCase = NoCase
    /\ lapCase = NoCase
    /\ calCase = NoCase
    /\ rerunCase = NoCase
    /\ filterCase = NoCase
    /\ sensorCase = NoCase
    /\ mapCase = NoCase
    /\ isOnline = TRUE
    /\ pendingMutations = <<>>
    /\ pendingCount = 0
    /\ syncStatus = "idle"
    /\ syncRuns = <<>>
    /\ mutationCount = 0
    /\ processedMutations = {}
    /\ localSessions = <<>>
    /\ serverSessions = <<>>
    /\ sessionRuns = <<>>
    /\ managerStatus = "idle"
    /\ sensorSessions = <<>>
    /\ sensorSamples = <<>>
    /\ chunkIds = 0
    /\ dbCalls = 0
    /\ dbResult = NoCase
    /\ acquisition = [loaded |-> FALSE, rpm |-> <<>>, laps |-> <<>>, selectedLaps |-> <<>>,
                      minRpm |-> 8000, maxRpm |-> 16000]

EngineNext ==
    \/ addGravitySample
    \/ addForwardSample
    \/ BuildCalibration
    \/ reset

\* The calibration engine driven in any order by its caller.
SpecEngine == Init /\ [][EngineNext]_vars

\* C9: buildCalibrationData yields a calibration only when at least 150 gravity samples
\* and at least 250 forward samples were pushed since the last reset, and yields none
\* (null) when either phase holds fewer, whatever the order of pushes and resets.
C9_CalibrationNeedsBothMinimums ==
    /\ buildResult = "calibration" =>
            pushedGravity >= GRAVITY_SAMPLES /\ pushedForward >= FORWARD_SAMPLES
    /\ buildResult = "null" =>
            pushedGravity < GRAVITY_SAMPLES \/ pushedForward < FORWARD_SAMPLES
    /\ (pushedGravity < GRAVITY_SAMPLES \/ pushedForward < FORWARD_SAMPLES) =>
            buildResult /= "calibration"

\* A calibration built exactly at both minimums.
C9_Witness ==
    /\ buildResult = "calibration"
    /\ pushedGravity = GRAVITY_SAMPLES
    /\ pushedForward = FORWARD_SAMPLES

\* C11: reset() empties both sample buffers and drops the gravity vector, so the engine
\* is back in awaiting-gravity with both progress values at 0; afterwards the buffers
\* hold only samples pushed since that reset, and a calibration is built only once both
\* phase minimums have been pushed again.
C11_AfterReset ==
    /\ gravitySamples = pushedGravity
    /\ forwardSamples = pushedForward
    /\ (pushedGravity = 0 /\ pushedForward = 0) =>
            /\ gravityVector = "null"
            /\ ~isGravityCalibrationComplete(gravitySamples)
            /\ Progress(gravitySamples, GRAVITY_SAMPLES) = 0
            /\ Progress(forwardSamples, FORWARD_SAMPLES) = 0
    /\ (resetDone /\ buildResult = "calibration") =>
            pushedGravity >= GRAVITY_SAMPLES /\ pushedForward >= FORWARD_SAMPLES

C11_ResetStep ==
    (resetDone' /\ pushedGravity' = 0 /\ pushedForward' = 0) =>
        /\ gravitySamples' = 0
        /\ forwardSamples' = 0
        /\ gravityVector' = "null"
        /\ buildResult' /= "calibration"

C11_ResetRestartsCalibration == [](C11_AfterReset) /\ [][C11_ResetStep]_vars

\* A calibration rebuilt after a reset, from samples pushed since that reset.
C11_Witness ==
    /\ resetDone
    /\ buildResult = "calibration"
    /\ pushedGravity = GRAVITY_SAMPLES
    /\ pushedForward = FORWARD_SAMPLES

(***************************************************************************)
(* Calibration arithmetic (calibration.ts)                                 *)
(* Units: accelerations in cm/s2; unit vectors, dot products of unit       *)
(* vectors and quality scores in 1/1000.  A phase buffer is a sequence of  *)
(* runs [n, v]: n consecutive readings of the same device vector v.        *)
(* Divisions and square roots round to the nearest integer.                *)
(***************************************************************************)
\* GRAVITY = 9.81 m/s2.
GRAVITY_CM == 981
\* MIN_ACCELERATION_FOR_FORWARD = 0.5 m/s2.
MIN_ACCELERATION_FOR_FORWARD == 50
\* powerIteration's default iteration count.
POWER_ITERATIONS == 50
\* 1.0 in the fixed point of unit vectors and quality scores.
ONE == 1000
\* Significant digits the fixed-point normalize keeps of a vector's largest component.
MANTISSA == 10000

\* A null Vector3.
NoVector == <<>>

\* buildCalibrationData returning null.
NoCalibration == [ok |-> FALSE]

RoundDiv(a, b) ==
    IF a >= 0 THEN (2 * a + b) \div (2 * b) ELSE -((2 * (-a) + b) \div (2 * b))

RECURSIVE sqrtFrom(_, _)
sqrtFrom(n, x) ==
    LET y == (x + n \div x) \div 2 IN IF y >= x THEN x ELSE sqrtFrom(n, y)

\* Math.sqrt of a 31-bit number (Newton's iteration from above the root).
Sqrt(n) ==
    IF n = 0 THEN 0
    ELSE LET r == sqrtFrom(n, Min(n, 46340)) IN IF n - r * r > r THEN r + 1 ELSE r

dot(a, b) == a[1] * b[1] + a[2] * b[2] + a[3] * b[3]

magnitude(v) == Sqrt(dot(v, v))

\* normalize: the zero vector stays zero, any other vector gets length 1.
normalize(v) ==
    LET m == Max(Abs(v[1]), Max(Abs(v[2]), Abs(v[3]))) IN
    IF m = 0 THEN <<0, 0, 0>>
    ELSE LET w == IF m > MANTISSA
                  THEN [i \in 1..3 |-> RoundDiv(v[i], m \div MANTISSA)]
                  ELSE [i \in 1..3 |-> v[i] * (MANTISSA \div m)]
             mag == magnitude(w)
         IN [i \in 1..3 |-> RoundDiv(w[i] * ONE, mag)]

\* cross of two unit vectors.
cross(a, b) ==
    << RoundDiv(a[2] * b[3] - a[3] * b[2], ONE),
       RoundDiv(a[3] * b[1] - a[1] * b[3], ONE),
       RoundDiv(a[1] * b[2] - a[2] * b[1], ONE) >>

RECURSIVE countOf(_)
countOf(runs) == IF runs = <<>> THEN 0 ELSE runs[1].n + countOf(Tail(runs))

RECURSIVE sumOf(_, _)
sumOf(runs, i) == IF runs = <<>> THEN 0 ELSE runs[1].n * runs[1].v[i] + sumOf(Tail(runs), i)

\* average of one component over a buffer (0 for an empty buffer).
averageOf(runs, i) == IF countOf(runs) = 0 THEN 0 ELSE RoundDiv(sumOf(runs, i), countOf(runs))

meanOf(runs) == [i \in 1..3 |-> averageOf(runs, i)]

\* Every reading of the buffer minus one vector.
minusVector(runs, g) ==
    [k \in 1..Len(runs) |-> [n |-> runs[k].n, v |-> [i \in 1..3 |-> runs[k].v[i] - g[i]]]]

RECURSIVE productSum(_, _, _)
productSum(runs, i, j) ==
    IF runs = <<>> THEN 0
    ELSE runs[1].n * runs[1].v[i] * runs[1].v[j] + productSum(Tail(runs), i, j)

computeCovarianceMatrix(samples) ==
    [i \in 1..3 |-> [j \in 1..3 |-> RoundDiv(productSum(samples, i, j), countOf(samples))]]

matrixTimes(matrix, v) == [i \in 1..3 |-> dot(matrix[i], v)]

RECURSIVE iterate(_, _, _)
iterate(matrix, v, left) ==
    IF left = 0 THEN v
    ELSE LET next == normalize(matrixTimes(matrix, v))
         IN IF next = v THEN iterate(matrix, v, left - 1) ELSE iterate(matrix, next, left - 1)

powerIteration(matrix) == iterate(matrix, normalize(<<1, 1, 1>>), POWER_ITERATIONS)

\* computeGravityVector on a concrete buffer: null below the minimum, else the mean.
computeGravityVectorOf(gravityRuns) ==
    IF countOf(gravityRuns) < GRAVITY_SAMPLES THEN NoVector ELSE meanOf(gravityRuns)

\* computeForwardFromPCA on concrete linear accelerations.
computeForwardFromPCAOf(samples) ==
    IF countOf(samples) < MIN_PCA_SAMPLES THEN NoVector
    ELSE LET mean == meanOf(samples)
             principal == powerIteration(computeCovarianceMatrix(minusVector(samples, mean)))
         IN IF dot(mean, principal) < 0
            THEN [i \in 1..3 |-> -principal[i]]
            ELSE principal

\* The runs whose linear acceleration is longer than MIN_ACCELERATION_FOR_FORWARD.
significantOf(linearAccel) ==
    SelectSeq(linearAccel,
              LAMBDA s : dot(s.v, s.v) > MIN_ACCELERATION_FOR_FORWARD * MIN_ACCELERATION_FOR_FORWARD)

\* computeForwardVector on a concrete buffer and the stored gravity vector.
computeForwardVectorOf(gv, forwardRuns) ==
    IF gv = NoVector \/ countOf(forwardRuns) < FORWARD_SAMPLES THEN NoVector
    ELSE LET linearAccel == minusVector(forwardRuns, gv)
             significantSamples == significantOf(linearAccel)
         IN IF countOf(significantSamples) < MIN_SIGNIFICANT
            THEN computeForwardFromPCAOf(linearAccel)
            ELSE computeForwardFromPCAOf(significantSamples)

\* The stored matrix: its i-th row holds the i-th components of forward, right and up.
rotationMatrixOf(f, r, u) == [i \in 1..3 |-> <<f[i], r[i], u[i]>>]

\* buildCalibrationData on concrete buffers: NoCalibration or the CalibrationData.
buildCalibrationDataOf(gravityRuns, forwardRuns) ==
    LET gv == computeGravityVectorOf(gravityRuns) IN
    IF gv = NoVector THEN NoCalibration
    ELSE LET forwardVector == computeForwardVectorOf(gv, forwardRuns) IN
    IF forwardVector = NoVector THEN NoCalibration
    ELSE LET gravityMag == magnitude(gv)
             upVector == [i \in 1..3 |-> RoundDiv(-gv[i] * ONE, gravityMag)]
             forwardDotUp == RoundDiv(dot(forwardVector, upVector), ONE)
             forwardOrthogonal ==
                 normalize([i \in 1..3 |->
                     forwardVector[i] * ONE - forwardDotUp * upVector[i]])
             rightVector == cross(forwardOrthogonal, upVector)
             gravityQuality ==
                 ONE - Min(ONE, (Abs(gravityMag - GRAVITY_CM) * ONE) \div 200)
             forwardQuality == Min(ONE, magnitude(forwardVector) \div 2)
             orthogonalityQuality == ONE - Abs(forwardDotUp)
         IN [ok |-> TRUE,
             gravityVector |-> gv,
             forwardVector |-> forwardOrthogonal,
             rightVector |-> rightVector,
             upVector |-> upVector,
             rotationMatrix |-> rotationMatrixOf(forwardOrthogonal, rightVector, upVector),
             qualityScore |-> (gravityQuality + forwardQuality + orthogonalityQuality) \div 3]

\* transformAcceleration: [forward, right, up] of a device reading, in cm/s2.
transformAcceleration(reading, cal) ==
    LET linear == [i \in 1..3 |-> reading[i] - cal.gravityVector[i]]
        m == cal.rotationMatrix
    IN [forward |-> RoundDiv(m[1][1] * linear[1] + m[2][1] * linear[2] + m[3][1] * linear[3], ONE),
        right |-> RoundDiv(m[1][2] * linear[1] + m[2][2] * linear[2] + m[3][2] * linear[3], ONE),
        up |-> RoundDiv(m[1][3] * linear[1] + m[2][3] * linear[2] + m[3][3] * linear[3], ONE)]

\* Device readings at rest: the device lying flat either way up, standing on its edge,
\* and tilted about its y axis.
GravityReadings == {<<0, 0, 981>>, <<0, 0, -981>>, <<0, 981, 0>>, <<300, 0, 934>>}

\* Linear accelerations of the kart during the forward phase, in device axes.
LinearAccels ==
    {<<200, 0, 0>>, <<100, 0, 0>>, <<0, 0, 0>>, <<0, 200, 0>>, <<0, 100, 0>>,
     <<100, -100, 0>>, <<0, 0, 150>>}

\* Lengths of the first run of the forward phase.
RunSplits == {FORWARD_SAMPLES \div 2, FORWARD_SAMPLES - MIN_PCA_SAMPLES, FORWARD_SAMPLES}

plus(a, b) == [i \in 1..3 |-> a[i] + b[i]]

\* The hook's calibration: exactly GRAVITY_SAMPLES readings at rest, then exactly
\* FORWARD_SAMPLES readings while driving, fed to buildCalibrationData; the recording
\* callback then transforms the next reading (here: the last reading again).
BuildCalibrationCall ==
    /\ calCase = NoCase
    /\ \E g \in GravityReadings, a \in LinearAccels, b \in LinearAccels, n1 \in RunSplits :
        LET gravityRuns == <<[n |-> GRAVITY_SAMPLES, v |-> g]>>
            forwardRuns ==
                IF n1 = FORWARD_SAMPLES THEN <<[n |-> n1, v |-> plus(g, a)]>>
                ELSE <<[n |-> n1, v |-> plus(g, a)],
                       [n |-> FORWARD_SAMPLES - n1, v |-> plus(g, b)]>>
            reading == forwardRuns[Len(forwardRuns)].v
        IN \E result \in {buildCalibrationDataOf(gravityRuns, forwardRuns)} :
            calCase' = [op |-> "buildCalibrationData",
                        gravityRuns |-> gravityRuns,
                        forwardRuns |-> forwardRuns,
                        result |-> result,
                        reading |-> reading,
                        live |-> IF result.ok THEN transformAcceleration(reading, result)
                                 ELSE [forward |-> 0, right |-> 0, up |-> 0]]
    /\ UNCHANGED <<engineVars, hookVars, gearCase, runCase, csvCase, metaCase, lapCase, rerunCase, filterCase, moreVars>>

CalNext == BuildCalibrationCall

\* buildCalibrationData evaluated once on concrete buffers.
SpecCal == Init /\ [][CalNext]_vars

\* Squared length of a unit vector is 1 within the fixed point's resolution.
IsUnit(v) == Abs(dot(v, v) - ONE * ONE) <= 5 * ONE

\* Two unit vectors are orthogonal within the fixed point's resolution.
IsOrthogonal(a, b) == Abs(dot(a, b)) <= 5 * ONE

\* C12: every calibration that is produced has forward, right and up vectors of norm 1
\* that are pairwise orthogonal; none of them is the zero vector.
C12_CalibrationOrthonormal ==
    (calCase.op = "buildCalibrationData" /\ calCase.result.ok) =>
        LET c == calCase.result IN
        /\ IsUnit(c.forwardVector) /\ IsUnit(c.rightVector) /\ IsUnit(c.upVector)
        /\ IsOrthogonal(c.forwardVector, c.upVector)
        /\ IsOrthogonal(c.forwardVector, c.rightVector)
        /\ IsOrthogonal(c.rightVector, c.upVector)

\* The scenario of 150 readings (0, 0, 9.81) and then 250 readings (2.0, 0, 9.81).
IsCleanScenario ==
    /\ calCase.op = "buildCalibrationData"
    /\ calCase.gravityRuns = <<[n |-> GRAVITY_SAMPLES, v |-> <<0, 0, GRAVITY_CM>>]>>
    /\ calCase.forwardRuns = <<[n |-> FORWARD_SAMPLES, v |-> <<200, 0, GRAVITY_CM>>]>>

\* C13: the clean scenario yields forward (+1, 0, 0), up (0, 0, +1), right (0, -1, 0).
C13_CleanScenarioAxes ==
    IsCleanScenario =>
        /\ calCase.result.ok
        /\ calCase.result.forwardVector = <<ONE, 0, 0>>
        /\ calCase.result.upVector = <<0, 0, ONE>>
        /\ calCase.result.rightVector = <<0, -ONE, 0>>

\* C14: the clean scenario gets a quality score of at least 0.9.
C14_CleanScenarioQuality ==
    IsCleanScenario => (calCase.result.ok /\ 10 * calCase.result.qualityScore >= 9 * ONE)

\* C15: the stored rotation matrix has the rows (forward, right, up), so that the matrix
\* times a gravity-removed device acceleration is its (forward, right, up) components.
C15_MatrixRows ==
    (calCase.op = "buildCalibrationData" /\ calCase.result.ok) =>
        LET c == calCase.result
            linear == [i \in 1..3 |-> calCase.reading[i] - c.gravityVector[i]]
            applied == [i \in 1..3 |-> RoundDiv(dot(c.rotationMatrix[i], linear), ONE)]
        IN /\ c.rotationMatrix = <<c.forwardVector, c.rightVector, c.upVector>>
           /\ applied = <<calCase.live.forward, calCase.live.right, calCase.live.up>>

(***************************************************************************)
(* Gear detector (gearDetection)                                           *)
(* Units: rpm in rpm; speed in mm/s; wheel radius in mm; angular           *)
(* velocities in 1/100 rad/s; ratios and relative errors in 1/1000.        *)
(***************************************************************************)
\* bestError's initial value: 0.15.
MAX_GEAR_ERROR == 150
\* The tolerance of the earlier detector: 0.10.
LEGACY_GEAR_ERROR == 100
\* "if (speed < 1) return 0", 1 m/s.
MIN_GEAR_SPEED == 1000
\* Math.PI in 1/10000.
PI10000 == 31416

Ratio(output, input) == (output * 1000) \div input

isDirectDrive(engine) == Len(engine.gears) = 0

\* (rpm * Math.PI) / 30
engineAngularVelocity(rpm) == (rpm * PI10000) \div 3000

\* speed / wheelRadius
wheelAngularVelocity(speed, wheelRadius) == (speed * 100) \div wheelRadius

observedRatio(rpm, speed, wheelRadius) ==
    (engineAngularVelocity(rpm) * 1000) \div wheelAngularVelocity(speed, wheelRadius)

primaryRatio(engine) == Ratio(engine.primary.output, engine.primary.input)

\* primaryRatio * gearRatio * finalRatio for gear pair g
expectedRatio(engine, g, finalRatio) ==
    (((primaryRatio(engine) * Ratio(g.output, g.input)) \div 1000) * finalRatio) \div 1000

\* Math.abs(observedRatio - expectedRatio) / expectedRatio
gearError(observed, expected) == (Abs(observed - expected) * 1000) \div expected

\* The for loop of detectGear from gear index i on, with the running best match.
RECURSIVE gearLoop(_, _, _, _, _, _)
gearLoop(observed, engine, finalRatio, i, bestMatch, bestError) ==
    IF i > Len(engine.gears) THEN bestMatch
    ELSE LET gear == engine.gears[i] IN
         IF gear.input = 0 \/ gear.output = 0
         THEN gearLoop(observed, engine, finalRatio, i + 1, bestMatch, bestError)
         ELSE LET err == gearError(observed, expectedRatio(engine, gear, finalRatio)) IN
              IF err < bestError
              THEN gearLoop(observed, engine, finalRatio, i + 1, i, err)
              ELSE gearLoop(observed, engine, finalRatio, i + 1, bestMatch, bestError)

\* The earlier detector: 10 % tolerance.
detectGear_Tolerance10(rpm, speed, wheelRadius, finalRatio, engine) ==
    IF speed < MIN_GEAR_SPEED THEN 0
    ELSE IF isDirectDrive(engine) THEN 1
    ELSE gearLoop(observedRatio(rpm, speed, wheelRadius), engine, finalRatio, 1, 0,
                  LEGACY_GEAR_ERROR)

detectGear(rpm, speed, wheelRadius, finalRatio, engine) ==
    IF speed < MIN_GEAR_SPEED THEN 0
    ELSE IF isDirectDrive(engine) THEN 1
    ELSE gearLoop(observedRatio(rpm, speed, wheelRadius), engine, finalRatio, 1, 0,
                  MAX_GEAR_ERROR)

getTotalRatio(gear, finalRatio, engine) ==
    IF isDirectDrive(engine) THEN (primaryRatio(engine) * finalRatio) \div 1000
    ELSE IF gear < 1 \/ gear > Len(engine.gears) THEN 0
    ELSE expectedRatio(engine, engine.gears[gear], finalRatio)

\* calculateExpectedRPM: the rpm on gear's line at this speed.
calculateExpectedRPM(speed, gear, wheelRadius, finalRatio, engine) ==
    LET totalRatio == getTotalRatio(gear, finalRatio, engine) IN
    IF totalRatio = 0 THEN 0
    ELSE (((wheelAngularVelocity(speed, wheelRadius) * totalRatio) \div 1000) * 3000)
             \div PI10000

GearPair(i, o) == [input |-> i, output |-> o]

\* Engines (inertia in g.m2): a direct-drive one, the six-speed shifter, and a gearbox whose first two
\* pairs give the same reduction.
DirectDriveEngine ==
    [name |-> "direct", inertia |-> 3, primary |-> GearPair(10, 10), gears |-> <<>>]
ShifterEngine ==
    [name |-> "shifter", inertia |-> 3, primary |-> GearPair(19, 75),
     gears |-> <<GearPair(13, 33), GearPair(16, 29), GearPair(18, 27),
                 GearPair(22, 27), GearPair(22, 23), GearPair(27, 25)>>]
TwinRatioEngine ==
    [name |-> "twin", inertia |-> 3, primary |-> GearPair(20, 60),
     gears |-> <<GearPair(13, 33), GearPair(26, 66), GearPair(20, 30)>>]
Engines == {DirectDriveEngine, ShifterEngine, TwinRatioEngine}

FinalDrives == {[frontSprocket |-> 11, rearSprocket |-> 80],
                [frontSprocket |-> 10, rearSprocket |-> 25]}
finalRatioOf(fd) == Ratio(fd.rearSprocket, fd.frontSprocket)

\* tyre.diameter / 2000, for the 280 mm tyre
WheelRadii == {140}
GearSpeeds == {500, 999, 1000, 8500, 9000, 11000}
\* Offsets of the rpm from a gear's line, in 1/1000 of that rpm.
RpmOffsets == {-200, -160, -140, -120, -90, 0, 90, 120, 140, 160, 200}
MaxGears == 6

\* detectGear and getTotalRatio on an rpm taken at offset d from gear k's line
\* (for direct drive, from the single ratio's line).
DetectGearCall ==
    /\ gearCase = NoCase
    /\ \E engine \in Engines, fd \in FinalDrives, r \in WheelRadii, speed \in GearSpeeds,
       k \in 1..MaxGears, d \in RpmOffsets :
        /\ k <= Max(1, Len(engine.gears))
        /\ LET fr == finalRatioOf(fd)
               line == calculateExpectedRPM(speed, k, r, fr, engine)
               rpm == (line * (1000 + d)) \div 1000
               g == detectGear(rpm, speed, r, fr, engine)
           IN gearCase' = [op |-> "detectGear", rpm |-> rpm, speed |-> speed, wheelRadius |-> r,
                           finalRatio |-> fr, engine |-> engine, k |-> k, offset |-> d,
                           gear |-> g, totalRatio |-> getTotalRatio(g, fr, engine)]
        /\ UNCHANGED <<engineVars, hookVars, runCase, csvCase, metaCase, lapCase, calCase, rerunCase, filterCase, moreVars>>

GearNext == DetectGearCall

SpecGear == Init /\ [][GearNext]_vars

GearErrorOf(c, i) ==
    gearError(observedRatio(c.rpm, c.speed, c.wheelRadius),
              expectedRatio(c.engine, c.engine.gears[i], c.finalRatio))

C2_DirectDriveAlwaysGearOne ==
    (gearCase.op = "detectGear" /\ isDirectDrive(gearCase.engine)) =>
        /\ gearCase.gear = 1
        /\ gearCase.totalRatio = (primaryRatio(gearCase.engine) * gearCase.finalRatio) \div 1000

(***************************************************************************)
(* Recording hook: the driver of the calibration state machine             *)
(*   awaiting-gravity = "calibrating-gravity"                              *)
(*   awaiting-forward = "calibrating-forward"                              *)
(*   done             = "recording"                                        *)
(*   failed           = "idle" with the calibration error set              *)
(***************************************************************************)
\* Most startCalibration calls that may be suspended in requestPermissions at once.
MaxPendingStarts == 2

\* Most accelerometer subscriptions alive at once (a start that overwrites
\* accelCleanupRef leaves the earlier subscription alive).
MaxSubs == 3

\* Sample periods of recording time the model lets pass.
MaxTicks == 3

\* Most samples the model lets a recording buffer.
MaxBuffer == 2

\* sensorStore.setError: a non-null error also moves the machine to 'error'.
setError(e, state) == IF e /= "null" THEN "error" ELSE state

\* Calling accelCleanupRef.current(): the subscription it names ends.
CleanupCal(ref) == IF ref = "cal" THEN calSubs - 1 ELSE calSubs
CleanupRec(ref) == IF ref = "rec" THEN recSubs - 1 ELSE recSubs

\* startCalibration up to the first await inside requestPermissions
\* (the Start button is rendered in 'idle' only).
StartCalibration ==
    /\ recordingState = "idle"
    /\ pendingStarts < MaxPendingStarts
    /\ recordingState' = "requesting-permissions"
    /\ error' = "null"
    /\ pendingStarts' = pendingStarts + 1
    /\ UNCHANGED <<calibration, calibrationProgress, calibrationRef, calSubs, recSubs,
                   accelCleanupRef, recVars, engineVars, fnVars>>

\* requestPermissions resolves false: setError, startCalibration returns.
PermissionsDenied ==
    /\ pendingStarts > 0
    /\ pendingStarts' = pendingStarts - 1
    /\ error' = "permission"
    /\ recordingState' = setError("permission", recordingState)
    /\ UNCHANGED <<calibration, calibrationProgress, calibrationRef, calSubs, recSubs,
                   accelCleanupRef, recVars, engineVars, fnVars>>

\* requestPermissions resolves true: the rest of startCalibration, which installs a
\* fresh CalibrationManager and subscribes handleCalibrationReading.
PermissionsGranted ==
    /\ pendingStarts > 0
    /\ calSubs + recSubs < MaxSubs
    /\ pendingStarts' = pendingStarts - 1
    /\ recordingState' = "calibrating-gravity"
    /\ calibrationProgress' = 0
    /\ calibrationRef' = "manager"
    /\ gravitySamples' = 0
    /\ forwardSamples' = 0
    /\ gravityVector' = "null"
    /\ pushedGravity' = 0
    /\ pushedForward' = 0
    /\ resetDone' = FALSE
    /\ buildResult' = "none"
    /\ calSubs' = calSubs + 1
    /\ accelCleanupRef' = "cal"
    /\ UNCHANGED <<error, calibration, recSubs, recVars, fnVars>>

\* handleCalibrationReading in state 'calibrating-gravity'.
HandleGravityReading ==
    /\ calSubs > 0
    /\ calibrationRef /= "null"
    /\ recordingState = "calibrating-gravity"
    /\ gravitySamples' = gravitySamples + 1
    /\ pushedGravity' = pushedGravity + 1
    /\ IF isGravityCalibrationComplete(gravitySamples + 1)
       THEN /\ recordingState' = "calibrating-forward"
            /\ calibrationProgress' = 0
       ELSE /\ recordingState' = recordingState
            /\ calibrationProgress' = Progress(gravitySamples + 1, GRAVITY_SAMPLES)
    /\ UNCHANGED <<forwardSamples, gravityVector, buildResult, pushedForward, resetDone, error,
                   calibration, calibrationRef, pendingStarts, calSubs, recSubs,
                   accelCleanupRef, recVars, fnVars>>

\* handleCalibrationReading in state 'calibrating-forward'; on completion it builds the
\* calibration and either begins recording (beginRecording) or reports the failure.
HandleForwardReading ==
    /\ calSubs > 0
    /\ calibrationRef /= "null"
    /\ recordingState = "calibrating-forward"
    /\ forwardSamples' = forwardSamples + 1
    /\ pushedForward' = pushedForward + 1
    /\ UNCHANGED <<gravitySamples, pushedGravity, resetDone, calibrationRef, pendingStarts,
                   now, lastSampleTimeRef, fnVars>>
    /\ IF isForwardCalibrationComplete(forwardSamples + 1)
       THEN \E sig \in {0, MIN_SIGNIFICANT - 1, forwardSamples + 1} :
            LET b == buildCalibrationData(gravitySamples, forwardSamples + 1,
                                          gravityVector, sig) IN
            /\ buildResult' = b.result
            /\ gravityVector' = b.gv
            /\ calibrationProgress' = Progress(forwardSamples + 1, FORWARD_SAMPLES)
            /\ IF b.result /= "null"
               THEN /\ calibration' = "data"
                    /\ recordingStartRef' = now
                    /\ recordingState' = "recording"
                    /\ recordingStartTime' = now
                    /\ recordingDuration' = 0
                    /\ sampleBuffer' = <<>>
                    /\ error' = error
                    /\ calSubs' = CleanupCal(accelCleanupRef)
                    /\ recSubs' = CleanupRec(accelCleanupRef) + 1
                    /\ accelCleanupRef' = "rec"
               ELSE /\ error' = "calibration"
                    /\ recordingState' = "idle"
                    /\ UNCHANGED <<calibration, calSubs, recSubs, accelCleanupRef,
                                   recordingStartRef, sampleBuffer, recordingStartTime,
                                   recordingDuration>>
       ELSE /\ calibrationProgress' = Progress(forwardSamples + 1, FORWARD_SAMPLES)
            /\ UNCHANGED <<gravityVector, buildResult, recordingState, error, calibration,
                           calSubs, recSubs, accelCleanupRef, recordingStartRef,
                           sampleBuffer, recordingStartTime, recordingDuration>>

\* The recording callback beginRecording subscribes: outside 'recording' and within
\* SAMPLE_RATE_MS of the last sample it returns, otherwise it appends a sample stamped
\* now - recordingStartRef.
HandleRecordingReading ==
    /\ recSubs > 0
    /\ IF recordingState = "recording" /\ now - lastSampleTimeRef >= SAMPLE_RATE_MS
          /\ Len(sampleBuffer) < MaxBuffer
       THEN /\ lastSampleTimeRef' = now
            /\ sampleBuffer' = Append(sampleBuffer, now - recordingStartRef)
       ELSE UNCHANGED <<lastSampleTimeRef, sampleBuffer>>
    /\ UNCHANGED <<recordingState, error, calibration, calibrationProgress, calibrationRef,
                   pendingStarts, calSubs, recSubs, accelCleanupRef, now, recordingStartRef,
                   recordingStartTime, recordingDuration, engineVars, fnVars>>

\* handlePause (the Pause button of RecordingControls, shown while recording).
HandlePause ==
    /\ recordingState = "recording"
    /\ recordingState' = "paused"
    /\ recordingDuration' =
            recordingDuration + (IF recordingStartTime /= 0 THEN now - recordingStartTime ELSE 0)
    /\ recordingStartTime' = 0
    /\ UNCHANGED <<error, calibration, calibrationProgress, calibrationRef, pendingStarts,
                   calSubs, recSubs, accelCleanupRef, now, recordingStartRef,
                   lastSampleTimeRef, sampleBuffer, engineVars, fnVars>>

\* handleResume (the Resume button, shown while paused).
HandleResume ==
    /\ recordingState = "paused"
    /\ recordingState' = "recording"
    /\ recordingStartTime' = now
    /\ recordingStartRef' = now
    /\ UNCHANGED <<error, calibration, calibrationProgress, calibrationRef, pendingStarts,
                   calSubs, recSubs, accelCleanupRef, now, lastSampleTimeRef, sampleBuffer,
                   recordingDuration, engineVars, fnVars>>

\* handleStop up to its await: stopRecording, 'processing', the sensors are stopped;
\* without samples it reports 'No data recorded' and ends in 'stopped', otherwise the
\* samples are processed and the session is being saved.
HandleStop ==
    /\ recordingState \in {"recording", "paused"}
    /\ recordingDuration' =
            recordingDuration + (IF recordingStartTime /= 0 THEN now - recordingStartTime ELSE 0)
    /\ recordingStartTime' = 0
    /\ calSubs' = CleanupCal(accelCleanupRef)
    /\ recSubs' = CleanupRec(accelCleanupRef)
    /\ accelCleanupRef' = "null"
    /\ IF calibration = "null" \/ sampleBuffer = <<>>
       THEN /\ error' = "no data"
            /\ recordingState' = "stopped"
       ELSE /\ error' = error
            /\ recordingState' = "processing"
    /\ UNCHANGED <<calibration, calibrationProgress, calibrationRef, pendingStarts, now,
                   recordingStartRef, lastSampleTimeRef, sampleBuffer, engineVars, fnVars>>

\* The rest of handleStop: saveSensorSession resolves or rejects.
SaveSettled ==
    /\ recordingState = "processing"
    /\ recordingState' = "stopped"
    /\ \E failed \in BOOLEAN : error' = IF failed THEN "processing" ELSE error
    /\ UNCHANGED <<calibration, calibrationProgress, calibrationRef, pendingStarts, calSubs,
                   recSubs, accelCleanupRef, recVars, engineVars, fnVars>>

\* One sample period of wall-clock time passes.  Time is let pass only where the
\* program reads the clock again: while a recording is on or paused, and after an
\* analysis until the clock has moved on from the reading that analysis took.
Tick ==
    /\ \/ recordingState \in {"recording", "paused"}
       \/ runCase /= NoCase /\ rerunCase = NoCase /\ runCase.results.timestamp = now
    /\ now < SAMPLE_RATE_MS * (1 + MaxTicks)
    /\ now' = now + SAMPLE_RATE_MS
    /\ UNCHANGED <<recordingState, error, calibration, calibrationProgress, calibrationRef,
                   pendingStarts, calSubs, recSubs, accelCleanupRef, recordingStartRef,
                   lastSampleTimeRef, sampleBuffer, recordingStartTime, recordingDuration,
                   engineVars, fnVars>>

\* handleCancel (Cancel of the calibration overlay and of the recording controls, New
\* Recording of the results view): unsubscribe, drop the manager, sensorStore.reset().
HandleCancel ==
    /\ recordingState \notin {"idle", "processing"}
    /\ calSubs' = CleanupCal(accelCleanupRef)
    /\ recSubs' = CleanupRec(accelCleanupRef)
    /\ accelCleanupRef' = "null"
    /\ calibrationRef' = "null"
    /\ recordingState' = "idle"
    /\ error' = "null"
    /\ calibration' = "null"
    /\ calibrationProgress' = 0
    /\ sampleBuffer' = <<>>
    /\ recordingStartTime' = 0
    /\ recordingDuration' = 0
    /\ UNCHANGED <<pendingStarts, now, recordingStartRef, lastSampleTimeRef, engineVars,
                   fnVars>>

Next ==
    \/ StartCalibration
    \/ PermissionsDenied
    \/ PermissionsGranted
    \/ HandleGravityReading
    \/ HandleForwardReading
    \/ HandleCancel

\* The calibration flow of the recording hook: start, permissions, the calibration
\* readings and cancel, driving one CalibrationManager.
Spec == Init /\ [][Next]_vars

RecordingNext ==
    \/ StartCalibration
    \/ PermissionsDenied
    \/ PermissionsGranted
    \/ HandleGravityReading
    \/ HandleForwardReading
    \/ HandleRecordingReading
    \/ HandlePause
    \/ HandleResume
    \/ HandleStop
    \/ SaveSettled
    \/ Tick
    \/ HandleCancel

\* The whole hook: the calibration flow followed by the recording with its controls.
SpecRecording == Init /\ [][RecordingNext]_vars

\* C10: the machine only moves calibrating-gravity -> calibrating-forward ->
\* recording | calibration failure: a forward sample is accepted only once the gravity
\* buffer holds its 150 samples, forward is entered only from gravity, recording or the
\* calibration failure is reached only with 250 forward samples (a paused recording
\* that resumes was calibrated before), and every entry into calibrating-gravity
\* starts from empty buffers (a reset).
C10_Step ==
    /\ forwardSamples' > forwardSamples =>
            /\ gravitySamples >= GRAVITY_SAMPLES
            /\ recordingState = "calibrating-forward"
    /\ (recordingState' = "calibrating-forward" /\ recordingState /= "calibrating-forward") =>
            /\ recordingState = "calibrating-gravity"
            /\ gravitySamples' >= GRAVITY_SAMPLES
    /\ (recordingState' = "recording" /\ recordingState \notin {"recording", "paused"}) =>
            /\ recordingState = "calibrating-forward"
            /\ forwardSamples' >= FORWARD_SAMPLES
    /\ (error' = "calibration" /\ error /= "calibration") =>
            /\ recordingState = "calibrating-forward"
            /\ forwardSamples' >= FORWARD_SAMPLES
    /\ (recordingState' = "calibrating-gravity" /\ recordingState /= "calibrating-gravity") =>
            /\ gravitySamples' = 0
            /\ forwardSamples' = 0
            /\ gravityVector' = "null"

C10_CalibrationOrder == [][C10_Step]_vars

\* Calibration completed: recording began with both buffers at their minimums.
C10_Witness ==
    /\ recordingState = "recording"
    /\ calibration = "data"
    /\ gravitySamples = GRAVITY_SAMPLES
    /\ forwardSamples = FORWARD_SAMPLES

\* C16: the timestamps in the sample buffer never decrease in buffer order, whatever
\* the sequence of start, pause, resume and stop.
C16_TimestampsNonDecreasing ==
    \A i \in 1..Len(sampleBuffer) - 1 : sampleBuffer[i] <= sampleBuffer[i + 1]

(***************************************************************************)
(* CSV cells.  A cell is what remains of a field after the quotes are      *)
(* removed and the text is trimmed; a word is carried in lower case.       *)
(* Times are in 1/10 s.  A missing number (NaN, undefined) is the empty    *)
(* sequence, a number v is <<v>>.                                          *)
(***************************************************************************)
NaN == <<>>

Cell(kind, text, a, b, parts) ==
    [kind |-> kind, text |-> text, a |-> a, b |-> b, parts |-> parts]
\* ""
EmptyCell == Cell("empty", "", 0, 0, <<>>)
\* a decimal number, v tenths
Num(v) == Cell("num", "", v, 0, <<>>)
\* "m:ss.s", s in tenths of a second
MinSec(m, s) == Cell("minsec", "", m, s, <<>>)
\* numbers joined by commas inside one quoted field
NumList(parts) == Cell("list", "", 0, 0, parts)
\* any other text
Word(w) == Cell("word", w, 0, 0, <<>>)

\* parseFloat reads the longest numeric prefix: the minutes of "m:ss.s", the first
\* number of a comma-joined list.
parseFloat(c) ==
    CASE c.kind = "num" -> <<c.a>>
      [] c.kind = "minsec" -> <<c.a * 10>>
      [] c.kind = "list" -> <<c.parts[1]>>
      [] OTHER -> NaN

\* parseInt, in units (not tenths); numbers here are never negative fractions.
parseInt(c) ==
    CASE c.kind = "num" -> <<c.a \div 10>>
      [] c.kind = "minsec" -> <<c.a>>
      [] c.kind = "list" -> <<c.parts[1] \div 10>>
      [] OTHER -> NaN

\* The positive numbers among vs, in order (!isNaN(t) && t > 0).
RECURSIVE PositiveOf(_)
PositiveOf(vs) ==
    IF vs = <<>> THEN <<>>
    ELSE (IF vs[1] > 0 THEN <<vs[1]>> ELSE <<>>) \o PositiveOf(Tail(vs))

\* What one cell of a 'beacon markers' row pushes: the cell is split on ','.
beaconCellValues(c) ==
    IF c.kind = "empty" THEN <<>>
    ELSE IF c.kind = "list" THEN PositiveOf(c.parts)
    ELSE PositiveOf(parseFloat(c))

\* What one cell of a 'segment times' row pushes: mm:ss when it holds a ':'.
segmentCellValues(c) ==
    IF c.kind = "empty" THEN <<>>
    ELSE IF c.kind = "minsec" THEN PositiveOf(<<c.a * 600 + c.b>>)
    ELSE PositiveOf(parseFloat(c))

\* The values pushed by row[1..] (row[2..] here) under one of the two rules.
RECURSIVE rowValues(_, _, _)
rowValues(row, i, beacon) ==
    IF i > Len(row) THEN <<>>
    ELSE (IF beacon THEN beaconCellValues(row[i]) ELSE segmentCellValues(row[i]))
            \o rowValues(row, i + 1, beacon)

\* The key of a metadata row.
rowKey(row) == IF row[1].kind = "word" THEN row[1].text ELSE ""

\* The scalar fields parseAIMMetadata assigns.
ScalarKeys == {"format", "venue", "vehicle", "user", "driver", "date", "time",
               "sample rate", "duration"}

\* The for loop of parseAIMMetadata: the accumulated beacon markers, segment times
\* and the set of scalar keys assigned.
RECURSIVE scanMetadata(_, _, _)
scanMetadata(rows, i, acc) ==
    IF i > Len(rows) THEN acc
    ELSE LET row == rows[i]
         IN IF Len(row) < 2 THEN scanMetadata(rows, i + 1, acc)
            ELSE scanMetadata(rows, i + 1,
                   CASE rowKey(row) = "beacon markers" ->
                            [acc EXCEPT !.beaconMarkers = @ \o rowValues(row, 2, TRUE)]
                     [] rowKey(row) = "segment times" ->
                            [acc EXCEPT !.segmentTimes = @ \o rowValues(row, 2, FALSE)]
                     [] rowKey(row) \in ScalarKeys ->
                            [acc EXCEPT !.fields = @ \cup {rowKey(row)}]
                     [] OTHER -> acc)

\* segmentTimes.every((t, i) => i === 0 || t > segmentTimes[i - 1])
isIncreasing_OrEqual(ts) == \A i \in 2..Len(ts) : ts[i] >= ts[i - 1]
isIncreasing(ts) == \A i \in 2..Len(ts) : ts[i] > ts[i - 1]

\* segmentTimes.map(t => { cumulative += t; return cumulative })
RECURSIVE cumulativeOf(_, _)
cumulativeOf(ts, cumulative) ==
    IF ts = <<>> THEN <<>>
    ELSE <<cumulative + ts[1]>> \o cumulativeOf(Tail(ts), cumulative + ts[1])

\* parseAIMMetadata.  An absent segmentTimes or lapTimes is the empty sequence
\* (the code never stores an empty array in either).
parseAIMMetadata(rows) ==
    LET acc == scanMetadata(rows, 1, [beaconMarkers |-> <<>>, segmentTimes |-> <<>>,
                                      fields |-> {}])
    IN IF Len(acc.beaconMarkers) > 0
       THEN [segmentTimes |-> acc.beaconMarkers, lapTimes |-> acc.segmentTimes,
             fields |-> acc.fields]
       ELSE IF Len(acc.segmentTimes) > 0
       THEN IF isIncreasing(acc.segmentTimes)
            THEN [segmentTimes |-> acc.segmentTimes, lapTimes |-> <<>>,
                  fields |-> acc.fields]
            ELSE [segmentTimes |-> cumulativeOf(acc.segmentTimes, 0),
                  lapTimes |-> acc.segmentTimes, fields |-> acc.fields]
       ELSE [segmentTimes |-> <<>>, lapTimes |-> <<>>, fields |-> acc.fields]

\* ---- inputs of the metadata parser ----
MaxCells == 2
MetaCells == {EmptyCell, Num(0), Num(300), Num(600), MinSec(0, 450), Word("abc"),
              NumList(<<900, 300>>)}
CellLists(n) == UNION {[1..k -> MetaCells] : k \in 0..n}

\* parseAIMMetadata on a venue row, a beacon-markers row and a segment-times row in
\* either order; a row of the key alone is one the parser skips.
ParseMetadataCall ==
    /\ metaCase = NoCase
    /\ \E b \in CellLists(MaxCells), s \in CellLists(MaxCells), beaconFirst \in BOOLEAN :
        /\ LET beaconRow == <<Word("beacon markers")>> \o b
               segmentRow == <<Word("segment times")>> \o s
               rows == <<<<Word("venue"), Word("abc")>>>>
                         \o (IF beaconFirst THEN <<beaconRow, segmentRow>>
                                            ELSE <<segmentRow, beaconRow>>)
           IN metaCase' = [op |-> "parseAIMMetadata", rows |-> rows,
                           beaconCells |-> b, segmentCells |-> s,
                           metadata |-> parseAIMMetadata(rows)]
        /\ UNCHANGED <<engineVars, hookVars, gearCase, runCase, csvCase, lapCase, calCase, rerunCase, filterCase, moreVars>>

MetaNext == ParseMetadataCall

SpecMeta == Init /\ [][MetaNext]_vars

\* The beacon markers and the segment times a file states: the positive numbers of the
\* cells after the key, in order.
RECURSIVE StatedTimes(_, _)
StatedTimes(cells, beacon) ==
    IF cells = <<>> THEN <<>>
    ELSE (IF beacon THEN beaconCellValues(cells[1]) ELSE segmentCellValues(cells[1]))
            \o StatedTimes(Tail(cells), beacon)

RECURSIVE PrefixSum(_, _)
PrefixSum(ts, n) == IF n = 0 THEN 0 ELSE PrefixSum(ts, n - 1) + ts[n]

\* C8: the lap boundaries are the beacon markers when there are any; otherwise the
\* segment times unchanged when each exceeds the one before, and otherwise their
\* prefix sums, the original values being kept as the per-lap times.
C8_BoundariesFromMetadata ==
    metaCase.op = "parseAIMMetadata" =>
    LET beacons == StatedTimes(metaCase.beaconCells, TRUE)
        segments == StatedTimes(metaCase.segmentCells, FALSE)
        m == metaCase.metadata
        increasing == \A i \in 1..Len(segments), j \in 1..Len(segments) :
                          i < j => segments[i] < segments[j]
    IN /\ beacons /= <<>> => m.segmentTimes = beacons
       /\ (beacons = <<>> /\ increasing) => m.segmentTimes = segments
       /\ (beacons = <<>> /\ ~increasing) =>
              /\ Len(m.segmentTimes) = Len(segments)
              /\ \A i \in 1..Len(segments) : m.segmentTimes[i] = PrefixSum(segments, i)
              /\ m.lapTimes = segments

\* Two equal segment times and no beacon marker: the boundaries are the prefix sums.
C8_Witness ==
    /\ metaCase.op = "parseAIMMetadata"
    /\ metaCase.beaconCells = <<Word("abc")>>
    /\ metaCase.segmentCells = <<Num(300), Num(300)>>
    /\ metaCase.metadata.segmentTimes = <<300, 600>>
    /\ metaCase.metadata.lapTimes = <<300, 300>>


(***************************************************************************)
(* Lap extraction: the lap markers parseCSV derives from the lap channel   *)
(* and extractLaps.  Indices are 0-based as in the code.                   *)
(***************************************************************************)
IN_LAP_THRESHOLD == 900

\* array[i], undefined outside the array
At(array, i) == IF i >= 0 /\ i < Len(array) THEN <<array[i + 1]>> ELSE NaN

\* a - b on numbers that may be undefined
Minus(a, b) == IF a = NaN \/ b = NaN THEN NaN ELSE <<a[1] - b[1]>>

\* a > limit, false on NaN
Exceeds(a, limit) == a /= NaN /\ a[1] > limit

\* parseCSV: marker 0, then every index where the lap channel changes value.
RECURSIVE markersFrom(_, _, _)
markersFrom(lapData, i, currentLap) ==
    IF i >= Len(lapData) THEN <<>>
    ELSE IF lapData[i + 1] /= currentLap
         THEN <<i>> \o markersFrom(lapData, i + 1, lapData[i + 1])
         ELSE markersFrom(lapData, i + 1, currentLap)

lapMarkersOf(lapData) ==
    IF Len(lapData) > 0 THEN <<0>> \o markersFrom(lapData, 1, lapData[1]) ELSE <<>>

LapInfo(index, lapTime, startIndex, endIndex, isOutLap, isInLap) ==
    [index |-> index, lapTime |-> lapTime, startIndex |-> startIndex,
     endIndex |-> endIndex, isOutLap |-> isOutLap, isInLap |-> isInLap]

\* extractLaps, first branch: one lap per marker; and the same with the last lap flagged
\* in-lap whatever its time.
markerLaps_InLapAlways(time, lapMarkers) ==
    [k \in 1..Len(lapMarkers) |->
        LET i == k - 1
            startIndex == lapMarkers[k]
            endIndex == IF i < Len(lapMarkers) - 1 THEN lapMarkers[k + 1] - 1
                        ELSE Len(time) - 1
            lapTime == Minus(At(time, endIndex), At(time, startIndex))
        IN LapInfo(i, lapTime, startIndex, endIndex, i = 0, i = Len(lapMarkers) - 1)]

markerLaps(time, lapMarkers) ==
    [k \in 1..Len(lapMarkers) |->
        LET i == k - 1
            startIndex == lapMarkers[k]
            endIndex == IF i < Len(lapMarkers) - 1 THEN lapMarkers[k + 1] - 1
                        ELSE Len(time) - 1
            lapTime == Minus(At(time, endIndex), At(time, startIndex))
        IN LapInfo(i, lapTime, startIndex, endIndex, i = 0,
                   i = Len(lapMarkers) - 1 /\ Exceeds(lapTime, IN_LAP_THRESHOLD))]

\* while (currentIndex < data.time.length && data.time[currentIndex] < endTime)
RECURSIVE advance(_, _, _)
advance(time, currentIndex, endTime) ==
    IF currentIndex < Len(time) /\ time[currentIndex + 1] < endTime
    THEN advance(time, currentIndex + 1, endTime)
    ELSE currentIndex

\* extractLaps, second branch: one lap per metadata boundary.
RECURSIVE segmentLaps(_, _, _, _)
segmentLaps(time, metadata, i, currentIndex) ==
    IF i >= Len(metadata.segmentTimes) THEN <<>>
    ELSE LET lapTime == IF i < Len(metadata.lapTimes)
                        THEN <<metadata.lapTimes[i + 1]>>
                        ELSE IF i = 0 THEN <<metadata.segmentTimes[1]>>
                        ELSE <<metadata.segmentTimes[i + 1] - metadata.segmentTimes[i]>>
             endTime == metadata.segmentTimes[i + 1]
             next == advance(time, currentIndex, endTime)
         IN <<LapInfo(i, lapTime, currentIndex, Max(0, next - 1), i = 0, FALSE)>>
                \o segmentLaps(time, metadata, i + 1, next)

extractLaps(time, lapMarkers, metadata) ==
    IF Len(lapMarkers) > 0 THEN markerLaps(time, lapMarkers)
    ELSE IF Len(metadata.segmentTimes) > 0 THEN segmentLaps(time, metadata, 0, 0)
    ELSE <<LapInfo(0, Minus(At(time, Len(time) - 1), At(time, 0)), 0, Len(time) - 1,
                   FALSE, FALSE)>>

\* ---- inputs of the lap extractor ----
MaxDataRows == 3
TimeValues == {0, 300, 600, 1000}
LapValues == {1, 2}
\* The rows above the header that state lap boundaries.
BoundaryRows ==
    { <<>>,
      <<<<Word("beacon markers"), Num(300), Num(600)>>>>,
      <<<<Word("beacon markers"), Num(300), Num(2000)>>>>,
      <<<<Word("beacon markers"), Num(400), Num(500)>>>>,
      <<<<Word("beacon markers"), Num(600), Num(300)>>>>,
      <<<<Word("segment times"), MinSec(0, 300), MinSec(0, 300)>>>>,
      <<<<Word("segment times"), Num(300), Num(600)>>>>,
      <<<<Word("beacon markers"), Num(1000)>>,
        <<Word("segment times"), MinSec(1, 400)>>>> }

\* The tail of parseCSV on n >= 1 data rows: the time and lap columns (empty when the
\* channel is not mapped to a header), the lap markers and extractLaps.
ExtractLapsCall ==
    /\ lapCase = NoCase
    /\ \E n \in 1..MaxDataRows, timeMapped \in BOOLEAN, lapMapped \in BOOLEAN,
       rows \in BoundaryRows :
      \E time \in [1..(IF timeMapped THEN n ELSE 0) -> TimeValues],
         lapData \in [1..(IF lapMapped THEN n ELSE 0) -> LapValues] :
        /\ LET metadata == parseAIMMetadata(rows)
               lapMarkers == lapMarkersOf(lapData)
           IN lapCase' = [op |-> "extractLaps", rowCount |-> n, time |-> time,
                          lapData |-> lapData, lapMarkers |-> lapMarkers,
                          metadata |-> metadata,
                          laps |-> extractLaps(time, lapMarkers, metadata)]
        /\ UNCHANGED <<engineVars, hookVars, gearCase, runCase, csvCase, metaCase, calCase, rerunCase, filterCase, moreVars>>

LapNext == ExtractLapsCall

SpecLaps == Init /\ [][LapNext]_vars

\* C6: in every lap list each lap has startIndex <= endIndex, the index ranges do not
\* overlap, and in order they cover a contiguous prefix of the session from index 0.
C6_LapsPartitionPrefix ==
    lapCase.op = "extractLaps" =>
    LET laps == lapCase.laps
    IN /\ \A k \in 1..Len(laps) : laps[k].startIndex <= laps[k].endIndex
       /\ \A j \in 1..Len(laps), k \in 1..Len(laps) :
              j < k => laps[j].endIndex < laps[k].startIndex
       /\ Len(laps) > 0 => laps[1].startIndex = 0
       /\ \A k \in 2..Len(laps) : laps[k].startIndex = laps[k - 1].endIndex + 1
       /\ \A k \in 1..Len(laps) : laps[k].endIndex <= lapCase.rowCount - 1


(***************************************************************************)
(* parseCSV.  A file is the sequence of rows the CSV reader returns, a row *)
(* a sequence of cells.  Row indices are 0-based as in the code.           *)
(***************************************************************************)
HEADER_SCAN_ROWS == 30
MIN_ROW_CELLS == 3
MAX_CHANNEL_NUMBER == 20

METADATA_KEYS == {"format", "venue", "vehicle", "user", "driver", "data source", "comment",
                  "date", "sample rate", "duration", "segment", "beacon markers",
                  "segment times", "session"}
UNIT_NAMES == {"sec", "km", "km/h", "rpm", "g", "m/s", "m", "%", "°c"}

RowAt(allRows, i) == allRows[i + 1]

\* detectChannel on the words of the model: the first channel one of whose aliases is
\* contained in the text ("segment times" contains the alias "time"); a cell that
\* starts like a lap time, a number and an empty cell match nothing.
detectChannel(c) ==
    IF c.kind /= "word" THEN "null"
    ELSE CASE c.text \in {"time", "segment times"} -> "time"
           [] c.text = "distance" -> "distance"
           [] c.text = "gps_speed" -> "speed"
           [] c.text = "rpm" -> "rpm"
           [] c.text = "lap" -> "lap"
           [] OTHER -> "null"

\* row.filter(cell => cell?.replace(/"/g, '').trim()).length
nonEmptyCells(row) == Cardinality({i \in 1..Len(row) : row[i].kind /= "empty"})
\* the cells that detect as a channel
channelMatches(row) == Cardinality({i \in 1..Len(row) : detectChannel(row[i]) /= "null"})

\* firstCell === key; no word of the model extends a key by a blank, apart from the
\* keys themselves.
isMetadataKey(c) == c.kind = "word" /\ c.text \in METADATA_KEYS

isHeaderRow(row) ==
    IF Len(row) < MIN_ROW_CELLS THEN FALSE
    ELSE IF isMetadataKey(row[1]) THEN FALSE
    ELSE \/ /\ channelMatches(row) >= 3
            /\ nonEmptyCells(row) >= 3
         \/ /\ row[1].kind = "word" /\ row[1].text \in {"time", "distance"}
            /\ nonEmptyCells(row) >= 3

\* for (let i = 0; i < Math.min(30, allRows.length); i++): the header's index, -1 if none
RECURSIVE findHeader(_, _)
findHeader(allRows, i) ==
    IF i >= Min(HEADER_SCAN_ROWS, Len(allRows)) THEN -1
    ELSE IF Len(RowAt(allRows, i)) >= MIN_ROW_CELLS /\ isHeaderRow(RowAt(allRows, i)) THEN i
    ELSE findHeader(allRows, i + 1)

\* The cleaned header row without its trailing empty cells.
RECURSIVE trimHeaders(_)
trimHeaders(row) ==
    IF Len(row) > 0 /\ row[Len(row)].kind = "empty"
    THEN trimHeaders(SubSeq(row, 1, Len(row) - 1))
    ELSE row

isUnitCell(c) == c.kind = "word" /\ c.text \in UNIT_NAMES
isSmallNumberCell(c) ==
    \/ c.kind = "empty"
    \/ parseInt(c) /= NaN /\ parseInt(c)[1] >= 0 /\ parseInt(c)[1] <= MAX_CHANNEL_NUMBER
isNumeric(c) == parseFloat(c) /= NaN

\* while (dataStartRow < allRows.length): skip short rows, duplicate headers, unit
\* rows, channel-number rows and anything not starting with a number.
RECURSIVE skipHeaderBlock(_, _)
skipHeaderBlock(allRows, dataStartRow) ==
    IF dataStartRow >= Len(allRows) THEN dataStartRow
    ELSE LET nextRow == RowAt(allRows, dataStartRow)
         IN IF Len(nextRow) < MIN_ROW_CELLS THEN skipHeaderBlock(allRows, dataStartRow + 1)
            ELSE IF isHeaderRow(nextRow) THEN skipHeaderBlock(allRows, dataStartRow + 1)
            ELSE IF (\E i \in 1..Len(nextRow) : isUnitCell(nextRow[i]))
                 THEN skipHeaderBlock(allRows, dataStartRow + 1)
            ELSE IF (\A i \in 1..Len(nextRow) : isSmallNumberCell(nextRow[i]))
                        /\ nonEmptyCells(nextRow) > 2
                 THEN skipHeaderBlock(allRows, dataStartRow + 1)
            ELSE IF isNumeric(nextRow[1]) THEN dataStartRow
            ELSE skipHeaderBlock(allRows, dataStartRow + 1)

\* The filter of the data rows.
isDataRow(row, headers) ==
    /\ Len(row) >= Min(MIN_ROW_CELLS, Len(headers))
    /\ isNumeric(row[1])

RECURSIVE filterDataRows(_, _)
filterDataRows(rows, headers) ==
    IF rows = <<>> THEN <<>>
    ELSE (IF isDataRow(rows[1], headers) THEN <<rows[1]>> ELSE <<>>)
            \o filterDataRows(Tail(rows), headers)

\* buildChannelMapping: the first header that detects as the channel; 0 when unmatched.
mappedHeader(headers, channel) ==
    LET hits == {i \in 1..Len(headers) : detectChannel(headers[i]) = channel}
    IN IF hits = {} THEN 0 ELSE CHOOSE i \in hits : \A j \in hits : i <= j

\* obj[header]: the row's cell under the last column carrying that header text.
fieldOf(row, headers, h) ==
    LET cols == {i \in 1..Len(headers) : headers[i] = headers[h]}
        col == CHOOSE i \in cols : \A j \in cols : i >= j
    IN IF col <= Len(row) THEN row[col] ELSE EmptyCell

\* getColumnData: [] for an unmapped channel, else parseFloat(value || '0'), NaN as 0.
getColumnData(dataRows, headers, channel) ==
    LET h == mappedHeader(headers, channel)
    IN IF h = 0 THEN <<>>
       ELSE [r \in 1..Len(dataRows) |->
                LET v == parseFloat(fieldOf(dataRows[r], headers, h))
                IN IF v = NaN THEN 0 ELSE v[1]]

CsvError(message) == [status |-> "error", message |-> message]

parseCSV_KeepEmpty(allRows) ==
    LET h == findHeader(allRows, 0)
    IN IF h = -1 THEN CsvError("no column headers")
       ELSE
        LET headers == trimHeaders(RowAt(allRows, h))
            dataStartRow == skipHeaderBlock(allRows, h + 1)
            metadata == parseAIMMetadata(SubSeq(allRows, 1, dataStartRow - 1))
            dataRows == filterDataRows(SubSeq(allRows, dataStartRow + 1, Len(allRows)),
                                       headers)
            time == getColumnData(dataRows, headers, "time")
            lapMarkers == lapMarkersOf(getColumnData(dataRows, headers, "lap"))
        IN [status |-> "ok", headers |-> headers, headerRow |-> h,
            dataStartRow |-> dataStartRow, metadata |-> metadata,
            dataRowCount |-> Len(dataRows), time |-> time,
            rpm |-> getColumnData(dataRows, headers, "rpm"),
            speed |-> getColumnData(dataRows, headers, "speed"),
            lapMarkers |-> lapMarkers,
            laps |-> extractLaps(time, lapMarkers, metadata)]
parseCSV(allRows) ==
    LET h == findHeader(allRows, 0)
    IN IF h = -1 THEN CsvError("no column headers")
       ELSE
        LET headers == trimHeaders(RowAt(allRows, h))
            dataStartRow == skipHeaderBlock(allRows, h + 1)
            metadata == parseAIMMetadata(SubSeq(allRows, 1, dataStartRow - 1))
            dataRows == filterDataRows(SubSeq(allRows, dataStartRow + 1, Len(allRows)),
                                       headers)
            time == getColumnData(dataRows, headers, "time")
            lapMarkers == lapMarkersOf(getColumnData(dataRows, headers, "lap"))
        IN IF Len(dataRows) = 0 THEN CsvError("no data rows")
           ELSE [status |-> "ok", headers |-> headers, headerRow |-> h,
                 dataStartRow |-> dataStartRow, metadata |-> metadata,
                 dataRowCount |-> Len(dataRows), time |-> time,
                 rpm |-> getColumnData(dataRows, headers, "rpm"),
                 speed |-> getColumnData(dataRows, headers, "speed"),
                 lapMarkers |-> lapMarkers,
                 laps |-> extractLaps(time, lapMarkers, metadata)]

\* ---- inputs of parseCSV ----
MaxFileRows == 4
\* time, speed, rpm, lap
FullHeaderRow == <<Word("time"), Word("gps_speed"), Word("rpm"), Word("lap")>>
\* a header without a time column, and a trailing empty cell
DistanceHeaderRow == <<Word("distance"), Word("rpm"), Word("gps_speed"), EmptyCell>>
UnitsRow == <<Word("sec"), Word("km/h"), Word("rpm"), EmptyCell>>
ChannelNumberRow == <<Num(10), Num(20), Num(30), Num(40)>>
DataRowA == <<Num(5), Num(400), Num(90000), Num(10)>>
DataRowB == <<Num(300), Num(450), Num(95000), Num(20)>>
ShortDataRow == <<Num(600), Num(500)>>
BeaconRow == <<Word("beacon markers"), Num(300), Num(600)>>
TextRow == <<Word("abc"), Word("abc"), Word("abc")>>
RowKinds == {FullHeaderRow, DistanceHeaderRow, UnitsRow, ChannelNumberRow, DataRowA,
             DataRowB, ShortDataRow, BeaconRow, TextRow}
\* Blank lines ahead of the content, to place it around the end of the header scan.
LeadingBlankRows == {0, HEADER_SCAN_ROWS - 1, HEADER_SCAN_ROWS}
BlankRow == <<EmptyCell>>

\* parseCSV on a file of blank lines followed by up to MaxFileRows rows.
ParseCSVCall ==
    /\ csvCase = NoCase
    /\ \E blanks \in LeadingBlankRows, n \in 0..MaxFileRows :
      \E content \in [1..n -> RowKinds] :
        /\ LET allRows == [i \in 1..blanks |-> BlankRow] \o content
           IN csvCase' = [op |-> "parseCSV", allRows |-> allRows, blanks |-> blanks,
                          content |-> content, result |-> parseCSV(allRows)]
        /\ UNCHANGED <<engineVars, hookVars, gearCase, runCase, metaCase, lapCase, calCase, rerunCase, filterCase, moreVars>>

CsvNext == ParseCSVCall

SpecCsv == Init /\ [][CsvNext]_vars

\* A row that reads as a header: three or more cells, not a metadata row, and three
\* channel names or a leading Time / Distance with three non-empty cells.
LooksLikeHeader(row) == Len(row) >= 3 /\ isHeaderRow(row)
\* A row that reads as data: three or more cells, the first one a number.
LooksLikeData(row) == Len(row) >= 3 /\ isNumeric(row[1])

\* C7: parseCSV fails when no header row lies within the first 30 rows, and when no
\* data row follows the header; a parsed document has at least one data row.
C7_NoHeaderOrNoDataFails ==
    csvCase.op = "parseCSV" =>
    LET rows == csvCase.allRows
        r == csvCase.result
        headerRows == {i \in 1..Min(30, Len(rows)) : LooksLikeHeader(rows[i])}
    IN /\ headerRows = {} => r.status = "error"
       /\ (headerRows /= {} /\
             \A i \in 1..Len(rows) :
                (\E h \in headerRows : \A g \in headerRows : h <= g /\ i > h)
                    => ~LooksLikeData(rows[i]))
            => r.status = "error"
       /\ r.status = "ok" =>
            /\ r.dataRowCount >= 1
            /\ headerRows /= {}
            /\ \E i \in 1..Len(rows) : i > r.headerRow + 1 /\ LooksLikeData(rows[i])

\* A header on the 31st row is not found; a header on the 30th with a data row is.
C7_Witness ==
    /\ csvCase.op = "parseCSV"
    /\ csvCase.content = <<FullHeaderRow, UnitsRow, DataRowB>>
    /\ \/ csvCase.blanks = HEADER_SCAN_ROWS /\ csvCase.result.status = "error"
       \/ csvCase.blanks = HEADER_SCAN_ROWS - 1 /\ csvCase.result.status = "ok"
                /\ csvCase.result.dataRowCount = 1


(***************************************************************************)
(* Logger power engine (powerCalculation, environmentCorrection).          *)
(* Units: speed channel in 1/10 km/h, lonAcc channel in 1/1000 g, speeds   *)
(* in mm/s, accelerations in mm/s2, forces in mN, power in 1/100 CV,       *)
(* torque in 1/10 N.m, air density in g/m3, areas and drag coefficient in  *)
(* 1/100, inertias in g.m2, rolling coefficients in 1e-5 and 1e-7.         *)
(* A value read from a channel that is not mapped is undefined: NaN.       *)
(***************************************************************************)
\* GRAVITY = 9.81, in 1/100
GRAVITY100 == 981
\* CV_TO_WATTS = 735.5, in 1/10
CV_TO_WATTS10 == 7355
\* 5 / 3.6 m/s in mm/s, rounded down as the speeds are
MIN_POWER_SPEED == 1388
\* the sanity bound of 100 CV
MAX_POWER_CV == 10000
\* R_DRY and R_VAPOR, in 1/100
R_DRY100 == 28705
R_VAPOR100 == 46150
BIN_SIZE == 100

Known(a) == a /= NaN
\* JavaScript comparisons: false as soon as one side is NaN
Less(a, b) == Known(a) /\ Known(b) /\ a[1] < b[1]
LessEq(a, b) == Known(a) /\ Known(b) /\ a[1] <= b[1]

\* array.slice(from, to) on 0-based indices with 0 <= from
Slice(array, from, to) == SubSeq(array, from + 1, Min(to, Len(array)))

\* The Magnus formula 610.78 * exp(17.27 t / (237.7 + t)) in Pa, tabulated for the
\* temperatures of the run conditions used here.
saturationVaporPressure(temperature) ==
    CASE temperature = 20 -> 2333
      [] temperature = 30 -> 4234
      [] OTHER -> 1702

calculateAirDensity(pressure, temperature, humidity) ==
    LET pressurePa == pressure * 100
        temperatureK100 == temperature * 100 + 27315
        pVapor == (humidity * saturationVaporPressure(temperature)) \div 100
        pDry == pressurePa - pVapor
    IN (pDry * 1000) \div ((R_DRY100 * temperatureK100) \div 10000)
         + (pVapor * 1000) \div ((R_VAPOR100 * temperatureK100) \div 10000)

extractLapData(telemetry, lapInfo) ==
    [time |-> Slice(telemetry.time, lapInfo.startIndex, lapInfo.endIndex + 1),
     speed |-> Slice(telemetry.speed, lapInfo.startIndex, lapInfo.endIndex + 1),
     rpm |-> Slice(telemetry.rpm, lapInfo.startIndex, lapInfo.endIndex + 1),
     lonAcc |-> Slice(telemetry.lonAcc, lapInfo.startIndex, lapInfo.endIndex + 1)]

\* speedKmh / 3.6
toMetresPerSecond(speedKmh) == IF Known(speedKmh) THEN <<(speedKmh[1] * 1000) \div 36>> ELSE NaN
\* lonAccG * GRAVITY
toAcceleration(lonAccG) == IF Known(lonAccG) THEN <<(lonAccG[1] * GRAVITY100) \div 100>> ELSE NaN

\* detectGear on values that may be NaN: "speed < 1" is then false, and every
\* "error < bestError" is false, so a geared engine matches nothing.
detectGearAt(rpm, speed, wheelRadius, finalRatio, engine) ==
    IF Known(rpm) /\ Known(speed)
    THEN detectGear(rpm[1], speed[1], wheelRadius, finalRatio, engine)
    ELSE IF Less(speed, <<MIN_GEAR_SPEED>>) THEN 0
    ELSE IF isDirectDrive(engine) THEN 1
    ELSE 0

\* The total wheel force of calculatePower, for a speed and an acceleration.
wheelForceOf(speed, lonAcc, totalRatio, wheelRadius, airDensity, config) ==
    LET speedSq == (speed * speed) \div 10000
        dragForce ==
            ((((airDensity * config.kart.frontalArea * config.kart.dragCoefficient)
                \div 1000) * speedSq) \div 2000)
        rollingResistance ==
            (((config.kart.weight * GRAVITY100) \div 100)
                * (config.tyre.rollingCoeff1
                     + (config.tyre.rollingCoeff2 * speedSq) \div 10000)) \div 100
        linearInertia == config.kart.weight * lonAcc
        wheelAngularAcc == (lonAcc * 100) \div wheelRadius
        wheelInertiaForce == (2 * config.tyre.inertia * wheelAngularAcc * 10) \div wheelRadius
        engineAngularAcc == (wheelAngularAcc * totalRatio) \div 1000
        engineInertiaForce ==
            (((((config.engine.inertia * engineAngularAcc) \div 100) * (totalRatio \div 10))
                \div 100) * 100) \div (wheelRadius \div 10)
    IN linearInertia + dragForce + rollingResistance + wheelInertiaForce
         + engineInertiaForce

\* wheelForce * speed / CV_TO_WATTS
powerCV(wheelForce, speed) ==
    ((((wheelForce \div 10) * (speed \div 10)) \div 10000) * 1000) \div CV_TO_WATTS10

\* The body of calculatePower's inner loop for sample i of a lap: the pushed point,
\* or nothing when a guard skips the sample.
powerPoint(lapData, i, lap, config) ==
    LET wheelRadius == config.tyre.diameter \div 2
        finalRatio == finalRatioOf(config.finalDrive)
        airDensity == calculateAirDensity(config.runConditions.pressure,
                                          config.runConditions.temperature,
                                          config.runConditions.humidity)
        speedKmh == At(lapData.speed, i)
        speed == toMetresPerSecond(speedKmh)
        rpm == At(lapData.rpm, i)
        lonAcc == toAcceleration(At(lapData.lonAcc, i))
        gear == detectGearAt(rpm, speed, wheelRadius, finalRatio, config.engine)
        totalRatio == getTotalRatio(gear, finalRatio, config.engine)
        defined == Known(speed) /\ Known(lonAcc)
        wheelForce == wheelForceOf(speed[1], lonAcc[1], totalRatio, wheelRadius,
                                   airDensity, config)
        wheelPowerCV == IF defined THEN <<powerCV(wheelForce, speed[1])>> ELSE NaN
        wheelTorque == IF defined THEN <<((wheelForce \div 100) * wheelRadius) \div 1000>>
                       ELSE NaN
    IN IF Less(speed, <<MIN_POWER_SPEED>>) THEN <<>>
       ELSE IF LessEq(lonAcc, <<0>>) THEN <<>>
       ELSE IF Less(rpm, <<config.minRpm>>) \/ Less(<<config.maxRpm>>, rpm) THEN <<>>
       ELSE IF gear = 0 THEN <<>>
       ELSE IF totalRatio = 0 THEN <<>>
       ELSE IF Less(wheelPowerCV, <<0>>) \/ Less(<<MAX_POWER_CV>>, wheelPowerCV) THEN <<>>
       ELSE <<[rpm |-> rpm, speed |-> speedKmh, power |-> wheelPowerCV,
               torque |-> wheelTorque, gear |-> gear, lapIndex |-> lap.index,
               timeIndex |-> i]>>

RECURSIVE lapPoints(_, _, _, _)
lapPoints(lapData, i, lap, config) ==
    IF i >= Len(lapData.time) THEN <<>>
    ELSE powerPoint(lapData, i, lap, config) \o lapPoints(lapData, i + 1, lap, config)

\* laps.filter(lap => selectedLapIndices.includes(lap.index))
RECURSIVE selectLaps(_, _)
selectLaps(laps, selectedLapIndices) ==
    IF laps = <<>> THEN <<>>
    ELSE (IF laps[1].index \in selectedLapIndices THEN <<laps[1]>> ELSE <<>>)
            \o selectLaps(Tail(laps), selectedLapIndices)

RECURSIVE pointsOfLaps(_, _, _)
pointsOfLaps(telemetry, selectedLaps, config) ==
    IF selectedLaps = <<>> THEN <<>>
    ELSE lapPoints(extractLapData(telemetry, selectedLaps[1]), 0, selectedLaps[1], config)
            \o pointsOfLaps(telemetry, Tail(selectedLaps), config)

calculatePower(telemetry, laps, selectedLapIndices, config) ==
    pointsOfLaps(telemetry, selectLaps(laps, selectedLapIndices), config)

\* calculateLapTelemetry: per selected lap, the gear and the simple power estimate of
\* every sample.
lapTelemetryOf(telemetry, lap, config) ==
    LET lapData == extractLapData(telemetry, lap)
        wheelRadius == config.tyre.diameter \div 2
        finalRatio == finalRatioOf(config.finalDrive)
        gearAt(i) == detectGearAt(At(lapData.rpm, i), toMetresPerSecond(At(lapData.speed, i)),
                                  wheelRadius, finalRatio, config.engine)
        powerAt(i) ==
            LET speed == toMetresPerSecond(At(lapData.speed, i))
                lonAcc == toAcceleration(At(lapData.lonAcc, i))
            IN IF Less(<<MIN_GEAR_SPEED>>, speed) /\ gearAt(i) > 0 /\ Less(<<0>>, lonAcc)
               THEN powerCV(config.kart.weight * lonAcc[1], speed[1])
               ELSE 0
    IN [lapIndex |-> lap.index, lapTime |-> lap.lapTime,
        gear |-> [k \in 1..Len(lapData.time) |-> gearAt(k - 1)],
        power |-> [k \in 1..Len(lapData.time) |-> powerAt(k - 1)]]

calculateLapTelemetry(telemetry, laps, selectedLapIndices, config) ==
    LET selectedLaps == selectLaps(laps, selectedLapIndices)
    IN [k \in 1..Len(selectedLaps) |-> lapTelemetryOf(telemetry, selectedLaps[k], config)]


(***************************************************************************)
(* RPM binner and smoothing (rpmBinning, dataFiltering).  The means of the *)
(* optional temperature and lambda channels are not carried.               *)
(***************************************************************************)
RECURSIVE SumOf(_)
SumOf(data) == IF data = <<>> THEN 0 ELSE data[1][1] + SumOf(Tail(data))

\* average of values that may be NaN
average(data) ==
    IF Len(data) = 0 THEN <<0>>
    ELSE IF \E i \in 1..Len(data) : ~Known(data[i]) THEN NaN
    ELSE <<SumOf(data) \div Len(data)>>

\* Math.floor(result.rpm / binSize) * binSize
binKey(rpm) == IF Known(rpm) THEN <<(rpm[1] \div BIN_SIZE) * BIN_SIZE>> ELSE NaN

\* The results binByRPM groups.
inRange(result, minRPM, maxRPM) ==
    ~(Less(result.rpm, <<minRPM>>) \/ Less(<<maxRPM>>, result.rpm))

\* The keys of the Map in insertion order.
RECURSIVE binKeys(_, _, _, _)
binKeys(results, minRPM, maxRPM, keys) ==
    IF results = <<>> THEN keys
    ELSE LET key == binKey(results[1].rpm)
         IN IF inRange(results[1], minRPM, maxRPM) /\ \A k \in 1..Len(keys) : keys[k] /= key
            THEN binKeys(Tail(results), minRPM, maxRPM, Append(keys, key))
            ELSE binKeys(Tail(results), minRPM, maxRPM, keys)

RECURSIVE samplesOf(_, _, _, _)
samplesOf(results, minRPM, maxRPM, key) ==
    IF results = <<>> THEN <<>>
    ELSE (IF inRange(results[1], minRPM, maxRPM) /\ binKey(results[1].rpm) = key
          THEN <<results[1]>> ELSE <<>>)
            \o samplesOf(Tail(results), minRPM, maxRPM, key)

binOf(key, samples) ==
    [rpm |-> IF Known(key) THEN <<key[1] + BIN_SIZE \div 2>> ELSE NaN,
     avgSpeed |-> average([k \in 1..Len(samples) |-> samples[k].speed]),
     avgPower |-> average([k \in 1..Len(samples) |-> samples[k].power]),
     avgTorque |-> average([k \in 1..Len(samples) |-> samples[k].torque]),
     sampleCount |-> Len(samples)]

\* The bins in Map order, without those of fewer than one sample or of mean power <= 0.
RECURSIVE binsInOrder(_, _, _, _)
binsInOrder(results, minRPM, maxRPM, keys) ==
    IF keys = <<>> THEN <<>>
    ELSE LET bin == binOf(keys[1], samplesOf(results, minRPM, maxRPM, keys[1]))
         IN (IF bin.sampleCount < 1 \/ LessEq(bin.avgPower, <<0>>) THEN <<>> ELSE <<bin>>)
                \o binsInOrder(results, minRPM, maxRPM, Tail(keys))

\* sort((a, b) => a.rpm - b.rpm): stable; a NaN difference leaves the order alone.
RECURSIVE insertBin(_, _)
insertBin(sorted, bin) ==
    IF sorted = <<>> THEN <<bin>>
    ELSE IF Less(bin.rpm, sorted[Len(sorted)].rpm)
         THEN Append(insertBin(SubSeq(sorted, 1, Len(sorted) - 1), bin), sorted[Len(sorted)])
         ELSE Append(sorted, bin)

RECURSIVE sortBins(_, _)
sortBins(bins, sorted) ==
    IF bins = <<>> THEN sorted ELSE sortBins(Tail(bins), insertBin(sorted, bins[1]))

binByRPM(results, minRPM, maxRPM) ==
    sortBins(binsInOrder(results, minRPM, maxRPM, binKeys(results, minRPM, maxRPM, <<>>)),
             <<>>)

\* SG_COEFFICIENTS, numerators and common denominator
SG_NUMERATORS(windowSize) ==
    CASE windowSize = 5 -> <<-3, 12, 17, 12, -3>>
      [] windowSize = 7 -> <<-2, 3, 6, 7, 6, 3, -2>>
      [] OTHER -> <<-21, 14, 39, 54, 59, 54, 39, 14, -21>>
SG_DENOMINATOR(windowSize) ==
    CASE windowSize = 5 -> 35
      [] windowSize = 7 -> 21
      [] OTHER -> 231

\* Math.max(0, Math.min(data.length - 1, idx))
boundedIdx(data, idx) == Max(0, Min(Len(data) - 1, idx))

\* The inner loop of savitzkyGolay for output i, from tap j on (numerators only).
RECURSIVE sgTaps(_, _, _, _)
sgTaps(data, windowSize, i, j) ==
    IF j >= windowSize THEN 0
    ELSE data[boundedIdx(data, i + j - windowSize \div 2) + 1][1]
            * SG_NUMERATORS(windowSize)[j + 1]
              + sgTaps(data, windowSize, i, j + 1)

\* A window holding a NaN gives NaN.
savitzkyGolay(data, windowSize) ==
    [k \in 1..Len(data) |->
        IF \E j \in 0..(windowSize - 1) :
              ~Known(data[boundedIdx(data, (k - 1) + j - windowSize \div 2) + 1])
        THEN NaN
        ELSE <<sgTaps(data, windowSize, k - 1, 0) \div SG_DENOMINATOR(windowSize)>>]

movingAverage(data, windowSize) ==
    IF windowSize < 1 \/ Len(data) = 0 THEN data
    ELSE [k \in 1..Len(data) |->
            LET start == Max(0, (k - 1) - windowSize \div 2)
                end == Min(Len(data), (k - 1) + windowSize \div 2 + 1)
            IN average(Slice(data, start, end))]

applyPowerFilter(data, filterLevel) ==
    IF filterLevel <= 0 THEN data
    ELSE IF filterLevel <= 25 THEN savitzkyGolay(data, 5)
    ELSE IF filterLevel <= 50 THEN savitzkyGolay(data, 7)
    ELSE IF filterLevel <= 75 THEN savitzkyGolay(data, 9)
    ELSE movingAverage(savitzkyGolay(data, 9), 5)

\* filterBinnedResults without its guard for fewer than 3 bins.
filterBinnedResults_NoShortGuard(results, filterLevel) ==
    IF filterLevel <= 0 THEN results
    ELSE LET filteredPower ==
                 applyPowerFilter([k \in 1..Len(results) |-> results[k].avgPower], filterLevel)
             filteredTorque ==
                 applyPowerFilter([k \in 1..Len(results) |-> results[k].avgTorque], filterLevel)
         IN [k \in 1..Len(results) |->
                [results[k] EXCEPT !.avgPower = filteredPower[k],
                                   !.avgTorque = filteredTorque[k]]]

filterBinnedResults(results, filterLevel) ==
    IF Len(results) < 3 \/ filterLevel <= 0 THEN results
    ELSE LET filteredPower ==
                 applyPowerFilter([k \in 1..Len(results) |-> results[k].avgPower], filterLevel)
             filteredTorque ==
                 applyPowerFilter([k \in 1..Len(results) |-> results[k].avgTorque], filterLevel)
         IN [k \in 1..Len(results) |->
                [results[k] EXCEPT !.avgPower = filteredPower[k],
                                   !.avgTorque = filteredTorque[k]]]

\* findPeakPower / findPeakTorque: the first bin of maximal value above 0.
RECURSIVE findPeak(_, _, _, _)
findPeak(values, rpms, maxValue, peakRPM) ==
    IF values = <<>> THEN [rpm |-> peakRPM, value |-> maxValue]
    ELSE IF Less(maxValue, values[1])
         THEN findPeak(Tail(values), Tail(rpms), values[1], rpms[1])
         ELSE findPeak(Tail(values), Tail(rpms), maxValue, peakRPM)

RECURSIVE totalSamplesOf(_)
totalSamplesOf(results) ==
    IF results = <<>> THEN 0 ELSE results[1].sampleCount + totalSamplesOf(Tail(results))

\* Math.min(...) and Math.max(...): NaN when a value is NaN
extremeOf(values, least) ==
    IF \E i \in 1..Len(values) : ~Known(values[i]) THEN NaN
    ELSE <<CHOOSE v \in {values[i][1] : i \in 1..Len(values)} :
              \A i \in 1..Len(values) : IF least THEN v <= values[i][1] ELSE v >= values[i][1]>>

\* calculateStatistics without its guard for an empty result list: Math.min() and
\* Math.max() of no arguments are not finite.
calculateStatistics_NoEmptyGuard(results) ==
    LET rpmValues == [k \in 1..Len(results) |-> results[k].rpm]
        powers == [k \in 1..Len(results) |-> results[k].avgPower]
        torques == [k \in 1..Len(results) |-> results[k].avgTorque]
    IN [peakPower |-> findPeak(powers, rpmValues, <<0>>, <<0>>),
        peakTorque |-> findPeak(torques, rpmValues, <<0>>, <<0>>),
        avgPower |-> average(powers), avgTorque |-> average(torques),
        rpmRange |-> IF Len(results) = 0 THEN [min |-> NaN, max |-> NaN]
                     ELSE [min |-> extremeOf(rpmValues, TRUE),
                           max |-> extremeOf(rpmValues, FALSE)],
        totalSamples |-> totalSamplesOf(results)]

calculateStatistics(results) ==
    LET rpmValues == [k \in 1..Len(results) |-> results[k].rpm]
        powers == [k \in 1..Len(results) |-> results[k].avgPower]
        torques == [k \in 1..Len(results) |-> results[k].avgTorque]
    IN IF Len(results) = 0
       THEN [peakPower |-> [rpm |-> <<0>>, value |-> <<0>>],
             peakTorque |-> [rpm |-> <<0>>, value |-> <<0>>],
             avgPower |-> <<0>>, avgTorque |-> <<0>>,
             rpmRange |-> [min |-> <<0>>, max |-> <<0>>], totalSamples |-> 0]
       ELSE [peakPower |-> findPeak(powers, rpmValues, <<0>>, <<0>>),
             peakTorque |-> findPeak(torques, rpmValues, <<0>>, <<0>>),
             avgPower |-> average(powers), avgTorque |-> average(torques),
             rpmRange |-> [min |-> extremeOf(rpmValues, TRUE),
                           max |-> extremeOf(rpmValues, FALSE)],
             totalSamples |-> totalSamplesOf(results)]

\* runAnalysis; the record also keeps step 1's rawPowerData, which the returned
\* document only counts.  timestamp is new Date().toISOString(), the clock reading
\* written out to the millisecond.
runAnalysis(telemetry, laps, selectedLapIndices, config) ==
    LET rawPowerData == calculatePower(telemetry, laps, selectedLapIndices, config)
        binnedResults == binByRPM(rawPowerData, config.minRpm, config.maxRpm)
        filteredResults == IF config.filterLevel > 0
                           THEN filterBinnedResults(binnedResults, config.filterLevel)
                           ELSE binnedResults
    IN [rawPowerData |-> rawPowerData,
        binnedResults |-> filteredResults,
        rawDataPoints |-> Len(rawPowerData),
        lapTelemetry |-> calculateLapTelemetry(telemetry, laps, selectedLapIndices, config),
        statistics |-> calculateStatistics(filteredResults),
        config |-> [engineName |-> config.engine.name,
                    finalRatio |-> finalRatioOf(config.finalDrive),
                    selectedLaps |-> selectedLapIndices],
        timestamp |-> now]


\* ---- inputs of the analysis ----
MaxSamples == 3

\* Kart, tyre and run conditions at the documented defaults.
AnalysisConfig(engine, finalDrive, filterLevel) ==
    [kart |-> [weight |-> 175, frontalArea |-> 58, dragCoefficient |-> 80],
     engine |-> engine,
     tyre |-> [diameter |-> 280, inertia |-> 27, rollingCoeff1 |-> 3000,
               rollingCoeff2 |-> 100],
     finalDrive |-> finalDrive,
     runConditions |-> [pressure |-> 1013, temperature |-> 20, humidity |-> 50],
     minRpm |-> 8000, maxRpm |-> 16000, filterLevel |-> filterLevel]

ShortFinalDrive == [frontSprocket |-> 10, rearSprocket |-> 25]
LongFinalDrive == [frontSprocket |-> 11, rearSprocket |-> 80]
FilterLevels == {0, 50}
Configs == {AnalysisConfig(ShifterEngine, ShortFinalDrive, f) : f \in FilterLevels}
             \cup {AnalysisConfig(DirectDriveEngine, LongFinalDrive, f) : f \in FilterLevels}

\* A logged sample at speedKmh (1/10 km/h) whose rpm lies on gear's line of the engine.
SampleOn(engine, finalDrive, speedKmh, gear, lonAcc) ==
    [speed |-> speedKmh,
     rpm |-> calculateExpectedRPM((speedKmh * 1000) \div 36, gear, 140,
                                  finalRatioOf(finalDrive), engine),
     lonAcc |-> lonAcc]

\* Accelerating samples on three gears (three bins); then a crawling, a coasting and a
\* low-rpm sample and, on the direct-drive line, an implausibly strong one whose rpm is
\* off every gear of the shifter.
SampleKinds ==
    { SampleOn(ShifterEngine, ShortFinalDrive, 600, 6, 300),
      SampleOn(ShifterEngine, ShortFinalDrive, 600, 5, 300),
      SampleOn(ShifterEngine, ShortFinalDrive, 600, 4, 300),
      [speed |-> 40, rpm |-> 9000, lonAcc |-> 300],
      SampleOn(ShifterEngine, ShortFinalDrive, 600, 6, 0),
      SampleOn(ShifterEngine, ShortFinalDrive, 400, 6, 300),
      SampleOn(DirectDriveEngine, LongFinalDrive, 1000, 1, 1500) }

\* The channels of { speed, rpm, lonAcc } a header was found for.
MappedChannels == { {"speed", "rpm", "lonAcc"}, {"speed", "rpm"}, {"speed", "lonAcc"} }

\* Where the laps come from: the lap channel (a new lap every lapLength samples), the
\* rows above the header, or neither; and the time of the first sample.
LapSources ==
    { [lapLength |-> 0, rows |-> <<>>, firstTime |-> 0],
      [lapLength |-> 1, rows |-> <<>>, firstTime |-> 0],
      [lapLength |-> 0, rows |-> <<<<Word("beacon markers"), Num(300), Num(600)>>>>,
       firstTime |-> 0],
      [lapLength |-> 0, rows |-> <<<<Word("beacon markers"), Num(300), Num(600)>>>>,
       firstTime |-> 300] }

\* getColumnData per channel for the sampled rows, one row every 30 s.
telemetryOf(samples, channels, source) ==
    [time |-> [k \in 1..Len(samples) |-> source.firstTime + 300 * (k - 1)],
     speed |-> IF "speed" \in channels THEN [k \in 1..Len(samples) |-> samples[k].speed]
               ELSE <<>>,
     rpm |-> IF "rpm" \in channels THEN [k \in 1..Len(samples) |-> samples[k].rpm]
             ELSE <<>>,
     lonAcc |-> IF "lonAcc" \in channels THEN [k \in 1..Len(samples) |-> samples[k].lonAcc]
                ELSE <<>>,
     lapMarkers |-> lapMarkersOf(IF source.lapLength = 0 THEN <<>>
                                 ELSE [k \in 1..Len(samples) |->
                                          1 + (k - 1) \div source.lapLength])]

\* What the user may tick: every lap, the first one, the last one.
LapSelections(laps) ==
    { {laps[k].index : k \in 1..Len(laps)}, {0}, {Len(laps) - 1} }

\* runAnalysis on a parsed file, its laps, a selection of them and a configuration.
RunAnalysisCall ==
    /\ runCase = NoCase
    /\ \E n \in 1..MaxSamples, channels \in MappedChannels, source \in LapSources,
          config \in Configs :
         \E samples \in [1..n -> SampleKinds] :
           LET telemetry == telemetryOf(samples, channels, source)
               laps == extractLaps(telemetry.time, telemetry.lapMarkers,
                                   parseAIMMetadata(source.rows))
           IN \E selectedLapIndices \in LapSelections(laps) :
                runCase' = [op |-> "runAnalysis", telemetry |-> telemetry, laps |-> laps,
                            selectedLapIndices |-> selectedLapIndices, config |-> config,
                            results |-> runAnalysis(telemetry, laps, selectedLapIndices,
                                                    config)]
    /\ UNCHANGED <<engineVars, hookVars, gearCase, csvCase, metaCase, lapCase, calCase, rerunCase, filterCase, moreVars>>

RunNext == RunAnalysisCall

SpecRun == Init /\ [][RunNext]_vars

\* runAnalysis called a second time with the arguments of the first call.
RunAnalysisAgain ==
    /\ runCase /= NoCase
    /\ rerunCase = NoCase
    /\ rerunCase' = [op |-> "runAnalysis",
                     results |-> runAnalysis(runCase.telemetry, runCase.laps,
                                             runCase.selectedLapIndices, runCase.config)]
    /\ UNCHANGED <<engineVars, hookVars, gearCase, runCase, csvCase, metaCase, lapCase,
                   calCase, filterCase, moreVars>>

RerunNext ==
    \/ RunAnalysisCall
    \/ Tick
    \/ RunAnalysisAgain

\* An analysis and, at once or later, the same analysis again.
SpecRerun == Init /\ [][RerunNext]_vars


\* The lap a pushed point names, when it is a selected one.
LapOfPoint(point) ==
    {k \in 1..Len(runCase.laps) :
        /\ runCase.laps[k].index = point.lapIndex
        /\ point.lapIndex \in runCase.selectedLapIndices}

\* C3: every accepted sample has speed >= 5/3.6 m/s (5 km/h), longitudinal
\* acceleration > 0, rpm within [minRpm, maxRpm], a detected gear other than 0 and
\* power within [0, 100] CV, and its index lies inside a selected lap.
C3_AcceptedSamplesPassGuards ==
    runCase.op = "runAnalysis" =>
    \A n \in 1..Len(runCase.results.rawPowerData) :
        LET point == runCase.results.rawPowerData[n]
            t == runCase.telemetry
        IN \E k \in LapOfPoint(point) :
            LET i == runCase.laps[k].startIndex + point.timeIndex
            IN /\ i >= runCase.laps[k].startIndex /\ i <= runCase.laps[k].endIndex
               /\ LessEq(<<50>>, At(t.speed, i))
               /\ Less(<<0>>, At(t.lonAcc, i))
               /\ LessEq(<<runCase.config.minRpm>>, At(t.rpm, i))
               /\ LessEq(At(t.rpm, i), <<runCase.config.maxRpm>>)
               /\ point.gear /= 0
               /\ LessEq(<<0>>, point.power) /\ LessEq(point.power, <<MAX_POWER_CV>>)

\* C4: the sampleCount of the reported bins adds up to the number of accepted samples
\* (rawDataPoints), which is at most the number of input samples.
C4_SampleCountsAddUp ==
    runCase.op = "runAnalysis" =>
        /\ totalSamplesOf(runCase.results.binnedResults) = runCase.results.rawDataPoints
        /\ runCase.results.rawDataPoints = Len(runCase.results.rawPowerData)
        /\ runCase.results.rawDataPoints <= Len(runCase.telemetry.time)

\* C5: the reported bins are strictly ascending by centre, every centre is 50 + 100 n
\* with n >= 0, and every bin holds at least one accepted sample.
C5_BinsAscendingAndCentred ==
    runCase.op = "runAnalysis" =>
    LET bins == runCase.results.binnedResults
        raw == runCase.results.rawPowerData
    IN /\ \A k \in 2..Len(bins) : Less(bins[k - 1].rpm, bins[k].rpm)
       /\ \A k \in 1..Len(bins) :
            /\ Known(bins[k].rpm)
            /\ bins[k].rpm[1] >= 50 /\ (bins[k].rpm[1] - 50) % 100 = 0
            /\ bins[k].sampleCount >= 1
            /\ bins[k].sampleCount =
                 Cardinality({n \in 1..Len(raw) :
                    /\ LessEq(<<bins[k].rpm[1] - 50>>, raw[n].rpm)
                    /\ Less(raw[n].rpm, <<bins[k].rpm[1] + 50>>)})

\* C17: an analysis repeated on identical inputs returns a document identical to the
\* first one in every field; nothing of the first call shows in the second.
C17_RepeatedAnalysisIdentical ==
    rerunCase.op = "runAnalysis" => rerunCase.results = runCase.results

\* ---- handleStart (App.tsx) ----
\* Configurations the input form can hold: the documented defaults, a kart of weight 0
\* and an rpm range whose minimum lies above its maximum.
WeightlessConfig == [AnalysisConfig(ShifterEngine, ShortFinalDrive, 0) EXCEPT !.kart.weight = 0]
InvertedRangeConfig ==
    [AnalysisConfig(ShifterEngine, ShortFinalDrive, 0) EXCEPT !.minRpm = 16000, !.maxRpm = 8000]
StartConfigs ==
    {AnalysisConfig(ShifterEngine, ShortFinalDrive, 0), WeightlessConfig, InvertedRangeConfig}

\* handleStart: the guard on the imported file and the selection, then runAnalysis inside
\* the try block; the results are stored unless no bin came back.  runAnalysis has no
\* throw statement, so the catch block is not entered.
handleStart ==
    /\ runCase = NoCase
    /\ \E n \in 1..MaxSamples, channels \in MappedChannels, source \in LapSources,
          config \in StartConfigs :
         \E samples \in [1..n -> SampleKinds] :
           LET telemetry == telemetryOf(samples, channels, source)
               laps == extractLaps(telemetry.time, telemetry.lapMarkers,
                                   parseAIMMetadata(source.rows))
           IN \E selectedLaps \in LapSelections(laps) :
                \E analysisResults \in {runAnalysis(telemetry, laps, selectedLaps, config)} :
                  runCase' = [op |-> "handleStart", telemetry |-> telemetry, laps |-> laps,
                              selectedLapIndices |-> selectedLaps, config |-> config,
                              analysisResults |-> analysisResults,
                              analysisError |-> IF selectedLaps = {}
                                                THEN "Please import a CSV file and select laps to analyze"
                                                ELSE IF analysisResults.binnedResults = <<>>
                                                THEN "No valid data points found"
                                                ELSE "null",
                              resultsSet |-> selectedLaps /= {}
                                             /\ analysisResults.binnedResults /= <<>>]
    /\ UNCHANGED <<engineVars, hookVars, gearCase, csvCase, metaCase, lapCase, calCase, rerunCase, filterCase, moreVars>>

StartNext == handleStart

\* The analysis started from the input form.
SpecStart == Init /\ [][StartNext]_vars

\* A configuration with positive mass, tyre diameter and teeth counts and min_rpm < max_rpm.
IsValidConfiguration(config) ==
    /\ config.kart.weight > 0
    /\ config.tyre.diameter > 0
    /\ config.finalDrive.frontSprocket > 0
    /\ config.finalDrive.rearSprocket > 0
    /\ config.minRpm < config.maxRpm

\* C19: an analysis started with an invalid configuration signals configuration-invalid
\* and produces no result.
C19_InvalidConfigurationRejected ==
    (runCase.op = "handleStart" /\ ~IsValidConfiguration(runCase.config)) =>
        (runCase.analysisError = "configuration-invalid" /\ ~runCase.resultsSet)

(***************************************************************************)
(* Smoothing of the sensor power engine (applyFiltering).  avgPower in     *)
(* 1/100 CV, avgPowerWatts in 1/100 W.                                     *)
(***************************************************************************)
\* The window applyFiltering picks for a filter level.
windowSizeOf(filterLevel) ==
    IF filterLevel > 75 THEN 9 ELSE IF filterLevel > 50 THEN 7 ELSE 5

applyFiltering(curve, filterLevel) ==
    IF filterLevel <= 0 \/ Len(curve) < 5 THEN curve
    ELSE LET powers == [k \in 1..Len(curve) |-> curve[k].avgPower]
             smoothed == savitzkyGolay(powers, windowSizeOf(filterLevel))
             finalSmoothed == IF filterLevel > 80 THEN savitzkyGolay(smoothed, 5)
                              ELSE smoothed
         IN [k \in 1..Len(curve) |->
                [curve[k] EXCEPT !.avgPower = <<Max(0, finalSmoothed[k][1])>>,
                                 !.avgPowerWatts =
                                     <<Max(0, (finalSmoothed[k][1] * CV_TO_WATTS10) \div 10)>>]]

\* The window the logger's applyPowerFilter picks for a filter level above 0.
ladderWindowOf(filterLevel) ==
    IF filterLevel <= 25 THEN 5 ELSE IF filterLevel <= 50 THEN 7 ELSE 9

\* ---- inputs of the smoothing ----
MaxCurve == 5
\* Mean powers of a speed bin.
BinPowers == {0, 1000, 3000}
\* Filter levels on both sides of every threshold of the two ladders.
SensorFilterLevels == {0, 25, 26, 50, 51, 75, 76, 80, 81, 100}

\* A binned curve, one point every 5 km/h from 12.5 km/h.
curveOf(powers) ==
    [k \in 1..Len(powers) |->
        [speedKmh |-> 125 + 50 * (k - 1), avgPower |-> <<powers[k]>>,
         avgPowerWatts |-> <<(powers[k] * CV_TO_WATTS10) \div 10>>]]

\* applyFiltering on a binned curve.
ApplyFilteringCall ==
    /\ filterCase = NoCase
    /\ \E n \in 4..MaxCurve, filterLevel \in SensorFilterLevels :
         \E powers \in [1..n -> BinPowers] :
           filterCase' = [op |-> "applyFiltering", curve |-> curveOf(powers),
                          filterLevel |-> filterLevel,
                          result |-> applyFiltering(curveOf(powers), filterLevel)]
    /\ UNCHANGED <<engineVars, hookVars, gearCase, runCase, csvCase, metaCase, lapCase,
                   calCase, rerunCase, moreVars>>

FilterNext == ApplyFilteringCall

\* applyFiltering evaluated once on one curve.
SpecFilter == Init /\ [][FilterNext]_vars

\* C20: on a curve long enough to be smoothed, the sensor engine's powers at a filter
\* level above 0 are those of the Savitzky-Golay window the logger ladder picks for that
\* level, smoothed once more with window 5 exactly when the level exceeds 80, and kept
\* non-negative.
C20_SensorUsesLoggerLadder ==
    (filterCase.op = "applyFiltering" /\ Len(filterCase.curve) >= 5
        /\ filterCase.filterLevel > 0) =>
        LET powers == [k \in 1..Len(filterCase.curve) |-> filterCase.curve[k].avgPower]
            first == savitzkyGolay(powers, ladderWindowOf(filterCase.filterLevel))
            final == IF filterCase.filterLevel > 80 THEN savitzkyGolay(first, 5) ELSE first
        IN \A k \in 1..Len(powers) : filterCase.result[k].avgPower = <<Max(0, final[k][1])>>

\* Statistics that are all zero.
ZeroStatistics ==
    [peakPower |-> [rpm |-> <<0>>, value |-> <<0>>],
     peakTorque |-> [rpm |-> <<0>>, value |-> <<0>>],
     avgPower |-> <<0>>, avgTorque |-> <<0>>,
     rpmRange |-> [min |-> <<0>>, max |-> <<0>>], totalSamples |-> 0]

\* C18: when no sample is accepted the analysis still returns a document: the raw and
\* the binned arrays are empty and the statistics are all zero; the statistics are all
\* zero as well whenever every bin is empty.
C18_DegenerateRunIsEmpty ==
    runCase.op = "runAnalysis" =>
        LET r == runCase.results IN
        /\ r.rawPowerData = <<>> => (r.rawDataPoints = 0 /\ r.binnedResults = <<>>)
        /\ r.binnedResults = <<>> => r.statistics = ZeroStatistics

\* Samples in a selected lap, none of them accepted.
C18_Witness ==
    /\ runCase.op = "runAnalysis"
    /\ Len(runCase.telemetry.time) > 0
    /\ \E k \in 1..Len(runCase.laps) : runCase.laps[k].index \in runCase.selectedLapIndices
    /\ runCase.results.rawDataPoints = 0
    /\ runCase.results.statistics = ZeroStatistics

(***************************************************************************)
(* Sensor power engine (sensorPowerCalculation).  Speeds in dm/s and in    *)
(* 1/100 km/h, accelerations in cm/s2, forces in mN, power in 1/10000 W    *)
(* and in 1/100 CV; areas and drag coefficients in 1/100, the rolling      *)
(* coefficient in 1/1000.                                                  *)
(***************************************************************************)
\* AIR_DENSITY = 1.225 kg/m3
AIR_DENSITY1000 == 1225
DEFAULT_FRONTAL_AREA == 50
DEFAULT_DRAG_COEFFICIENT == 80
DEFAULT_ROLLING_COEFFICIENT == 20
SPEED_BIN_SIZE_KMH == 5
MIN_SAMPLES_PER_BIN == 3
\* gpsSpeed below 0.5 m/s is skipped.
MIN_GPS_SPEED == 5

\* One sample of processSamples: <<>> when it is skipped.
processSample(sample, calibrationData, params) ==
    IF ~Known(sample.gpsSpeed) \/ sample.gpsSpeed[1] < MIN_GPS_SPEED THEN <<>>
    ELSE LET speedMs == sample.gpsSpeed[1]
             forwardAccel == transformAcceleration(sample.accel, calibrationData).forward
             inertialForce == params.kartWeight * forwardAccel * 10
             \* 0.5 * 1.225 * A * Cd * v^2 with 1225 / 2000000 reduced to 49 / 80000
             dragForce == ((AIR_DENSITY1000 \div 25) * params.frontalArea
                              * params.dragCoefficient * speedMs * speedMs) \div 80000
             rollingForce == (params.kartWeight * GRAVITY_CM * params.rollingCoefficient)
                                \div 100
             power == (inertialForce + dragForce + rollingForce) * speedMs
         IN <<[timestamp |-> sample.timestamp, speedMs |-> speedMs,
               speedKmh |-> 36 * speedMs, forwardAccel |-> forwardAccel,
               power |-> power, powerCV |-> power \div (CV_TO_WATTS10 * 10)]>>

RECURSIVE processSamples(_, _, _)
processSamples(samples, calibrationData, params) ==
    IF samples = <<>> THEN <<>>
    ELSE processSample(samples[1], calibrationData, params)
            \o processSamples(Tail(samples), calibrationData, params)

\* Math.floor(sample.speedKmh / binSizeKmh)
speedBinIndex(sample, binSizeKmh) == sample.speedKmh \div (100 * binSizeKmh)

\* The samples binBySpeed adds to the bin binIndex.
RECURSIVE binSamples(_, _, _)
binSamples(samples, binSizeKmh, binIndex) ==
    IF samples = <<>> THEN <<>>
    ELSE (IF samples[1].powerCV < 0 \/ speedBinIndex(samples[1], binSizeKmh) /= binIndex
          THEN <<>> ELSE <<samples[1]>>)
            \o binSamples(Tail(samples), binSizeKmh, binIndex)

RECURSIVE fieldSum(_, _)
fieldSum(samples, field) ==
    IF samples = <<>> THEN 0 ELSE samples[1][field] + fieldSum(Tail(samples), field)

\* The points of the bins from binIndex up, in ascending order of bin index.
RECURSIVE pointsFrom(_, _, _, _)
pointsFrom(samples, binSizeKmh, binIndex, lastIndex) ==
    IF binIndex > lastIndex THEN <<>>
    ELSE LET bin == binSamples(samples, binSizeKmh, binIndex)
             count == Len(bin)
             binCenter == (2 * binIndex + 1) * 50 * binSizeKmh
         IN (IF count = 0 \/ count < MIN_SAMPLES_PER_BIN THEN <<>>
             ELSE <<[speedKmh |-> binCenter,
                     speedMs |-> (binCenter * 10) \div 36,
                     avgPower |-> <<fieldSum(bin, "powerCV") \div count>>,
                     avgPowerWatts |-> <<(fieldSum(bin, "power") \div count) \div 100>>,
                     avgForwardAccel |-> fieldSum(bin, "forwardAccel") \div count,
                     sampleCount |-> count]>>)
                \o pointsFrom(samples, binSizeKmh, binIndex + 1, lastIndex)

binBySpeed(samples, binSizeKmh) ==
    LET indices == {speedBinIndex(samples[k], binSizeKmh) : k \in 1..Len(samples)}
    IN IF indices = {} THEN <<>>
       ELSE pointsFrom(samples, binSizeKmh,
                       CHOOSE i \in indices : \A j \in indices : i <= j,
                       CHOOSE i \in indices : \A j \in indices : i >= j)

\* calculateStatistics of the sensor engine; accelerations in 1/1000 g.
RECURSIVE greatest(_, _)
greatest(values, start) ==
    IF values = <<>> THEN start
    ELSE greatest(Tail(values), IF values[1] > start THEN values[1] ELSE start)

sensorStatistics(processed, curve) ==
    LET peakPower == greatest([k \in 1..Len(curve) |-> curve[k].avgPower[1]], 0)
        accelG == [k \in 1..Len(processed) |->
                      (processed[k].forwardAccel * 1000) \div GRAVITY_CM]
    IN [peakPower |-> peakPower,
        peakPowerSpeed |->
            IF \E k \in 1..Len(curve) : curve[k].avgPower[1] = peakPower /\ peakPower > 0
            THEN curve[CHOOSE k \in 1..Len(curve) :
                          /\ curve[k].avgPower[1] = peakPower
                          /\ \A j \in 1..(k - 1) : curve[j].avgPower[1] < peakPower].speedKmh
            ELSE 0,
        maxSpeed |-> greatest([k \in 1..Len(processed) |-> processed[k].speedKmh], 0),
        maxAcceleration |-> greatest(accelG, 0),
        maxDeceleration |-> greatest([k \in 1..Len(processed) |-> -accelG[k]], 0),
        totalSamples |-> Len(processed),
        validSpeedSamples |->
            Cardinality({k \in 1..Len(processed) : processed[k].speedMs > MIN_GPS_SPEED})]

processSensorData(samples, calibrationData, config) ==
    LET processed == processSamples(samples, calibrationData, config)
        binned == binBySpeed(processed, SPEED_BIN_SIZE_KMH)
        filtered == applyFiltering(binned, config.filterLevel)
    IN [curve |-> filtered, statistics |-> sensorStatistics(processed, filtered)]

\* ---- inputs of the sensor engine ----
\* The device flat on the kart, calibrated while accelerating along its x axis.
LevelCalibration ==
    buildCalibrationDataOf(<<[n |-> GRAVITY_SAMPLES, v |-> <<0, 0, 981>>]>>,
                           <<[n |-> FORWARD_SAMPLES \div 2, v |-> <<200, 0, 981>>],
                             [n |-> FORWARD_SAMPLES - FORWARD_SAMPLES \div 2,
                              v |-> <<100, 0, 981>>]>>)

\* Recorded samples: accelerating at 1, 2 and 3 m/s, coasting and braking at 2 m/s,
\* crawling below the GPS threshold, and without a GPS fix.
SensorSampleKinds ==
    { [gpsSpeed |-> <<10>>, accel |-> <<100, 0, 981>>],
      [gpsSpeed |-> <<20>>, accel |-> <<100, 0, 981>>],
      [gpsSpeed |-> <<30>>, accel |-> <<100, 0, 981>>],
      [gpsSpeed |-> <<20>>, accel |-> <<0, 0, 981>>],
      [gpsSpeed |-> <<20>>, accel |-> <<-300, 0, 981>>],
      [gpsSpeed |-> <<4>>, accel |-> <<100, 0, 981>>],
      [gpsSpeed |-> NaN, accel |-> <<100, 0, 981>>] }

\* The defaults of processSensorData for a 175 kg kart, and the same kart with the drag
\* and rolling coefficients overridden to 0.
SensorConfigs ==
    { [kartWeight |-> 175, frontalArea |-> DEFAULT_FRONTAL_AREA,
       dragCoefficient |-> DEFAULT_DRAG_COEFFICIENT,
       rollingCoefficient |-> DEFAULT_ROLLING_COEFFICIENT, filterLevel |-> 50],
      [kartWeight |-> 175, frontalArea |-> DEFAULT_FRONTAL_AREA,
       dragCoefficient |-> 0, rollingCoefficient |-> 0, filterLevel |-> 50] }

MaxRuns == 3
RunLengths == {MIN_SAMPLES_PER_BIN - 1, MIN_SAMPLES_PER_BIN}

\* The sample buffer of a recording made of runs of equal samples, one every 20 ms.
RECURSIVE expandRuns(_, _)
expandRuns(runs, start) ==
    IF runs = <<>> THEN <<>>
    ELSE [k \in 1..runs[1].n |->
             [timestamp |-> SAMPLE_RATE_MS * (start + k), gpsSpeed |-> runs[1].kind.gpsSpeed,
              accel |-> runs[1].kind.accel]]
            \o expandRuns(Tail(runs), start + runs[1].n)

\* processSensorData on a recorded buffer.
ProcessSensorDataCall ==
    /\ sensorCase = NoCase
    /\ \E r \in 1..MaxRuns, config \in SensorConfigs :
         \E runs \in [1..r -> [n : RunLengths, kind : SensorSampleKinds]] :
           LET samples == expandRuns(runs, 0)
           IN sensorCase' = [op |-> "processSensorData", samples |-> samples,
                             config |-> config,
                             processed |-> processSamples(samples, LevelCalibration, config),
                             result |-> processSensorData(samples, LevelCalibration, config)]
    /\ UNCHANGED <<engineVars, hookVars, callVars, mapCase, syncVars, managerVars, dbVars, acquisition>>

SensorNext == ProcessSensorDataCall

\* processSensorData evaluated once on one buffer.
SpecSensor == Init /\ [][SensorNext]_vars

\* The processed samples of the case that lie in the speed bin of a curve point.
SamplesAround(point) ==
    {k \in 1..Len(sensorCase.processed) :
        (2 * speedBinIndex(sensorCase.processed[k], SPEED_BIN_SIZE_KMH) + 1)
            * 50 * SPEED_BIN_SIZE_KMH = point.speedKmh}

\* C21: every point of the speed-power curve is centred on (n + 0.5) * 5 km/h for the
\* bin n of the speeds it aggregates, aggregates at least 3 samples, aggregates exactly
\* the processed samples of its bin whose power is above 0, and the points are strictly
\* ascending by speed.
C21_SpeedCurvePoints ==
    sensorCase.op = "processSensorData" =>
        LET curve == sensorCase.result.curve IN
        /\ \A k \in 1..Len(curve) :
              /\ \E n \in 0..40 : curve[k].speedKmh = (2 * n + 1) * 250
              /\ curve[k].sampleCount >= 3
              /\ curve[k].sampleCount =
                     Cardinality({i \in SamplesAround(curve[k]) :
                                     sensorCase.processed[i].power > 0})
        /\ \A k \in 1..(Len(curve) - 1) : curve[k].speedKmh < curve[k + 1].speedKmh

\* The bins of the analysed case before smoothing.
UnsmoothedBins ==
    binByRPM(calculatePower(runCase.telemetry, runCase.laps, runCase.selectedLapIndices,
                            runCase.config),
             runCase.config.minRpm, runCase.config.maxRpm)

\* C22: with filter level 0, or with fewer than 3 bins at any filter level, the bins the
\* analysis returns are the unsmoothed bins, mean power and torque included.
C22_NoSmoothingAtZeroOrShort ==
    (runCase.op = "runAnalysis"
        /\ (runCase.config.filterLevel = 0 \/ Len(runCase.results.binnedResults) < 3)) =>
        runCase.results.binnedResults = UnsmoothedBins

\* Two bins of different mean power at filter level 50.
C22_Witness ==
    /\ runCase.op = "runAnalysis"
    /\ runCase.config.filterLevel = 50
    /\ Len(runCase.results.binnedResults) = 2
    /\ runCase.results.binnedResults[1].avgPower /= runCase.results.binnedResults[2].avgPower
    /\ runCase.results.binnedResults = UnsmoothedBins

(***************************************************************************)
(* Channel mapping (detectChannel, buildChannelMapping).  A header is its  *)
(* lower-case trimmed text, cut into pieces so that one text contains      *)
(* another exactly when the pieces of the one hold those of the other in a *)
(* row, together with the form it was written in.                          *)
(***************************************************************************)
\* Seven of the thirteen channels, in the order of the object's keys, each with some of
\* its aliases in lower case.
CHANNEL_MAPPINGS ==
    << [channel |-> "time", aliases |-> << <<"time">>, <<"lap", " ", "time">> >>],
       [channel |-> "distance", aliases |-> << <<"distance">> >>],
       [channel |-> "speed", aliases |-> << <<"gps_", "speed">>, <<"speed">> >>],
       [channel |-> "rpm",
        aliases |-> << <<"rpm">>, <<"engine">>, <<"engine", " ", "speed">> >>],
       [channel |-> "tempHead",
        aliases |-> << <<"temp_head">>, <<"temperature", " ", "1">>, <<"temperature">> >>],
       [channel |-> "tempCool",
        aliases |-> << <<"temp_cool">>, <<"temperature", " ", "2">> >>],
       [channel |-> "lap", aliases |-> << <<"lap">> >>] >>

ChannelNames == {CHANNEL_MAPPINGS[k].channel : k \in 1..Len(CHANNEL_MAPPINGS)}

Header(text, form) == [kind |-> "text", text |-> text, form |-> form]
\* header.toLowerCase().trim()
normalizedOf(header) == header.text

\* normalizedHeader === alias || normalizedHeader.includes(alias)
includes(text, alias) ==
    \/ text = alias
    \/ \E i \in 0..(Len(text) - Len(alias)) : \A j \in 1..Len(alias) : text[i + j] = alias[j]

RECURSIVE anyAlias(_, _)
anyAlias(normalizedHeader, aliases) ==
    IF aliases = <<>> THEN FALSE
    ELSE IF includes(normalizedHeader, aliases[1]) THEN TRUE
    ELSE anyAlias(normalizedHeader, Tail(aliases))

RECURSIVE scanChannels(_, _)
scanChannels(normalizedHeader, entries) ==
    IF entries = <<>> THEN "null"
    ELSE IF anyAlias(normalizedHeader, entries[1].aliases) THEN entries[1].channel
    ELSE scanChannels(normalizedHeader, Tail(entries))

\* detectChannel of a header string: null for the empty string and for a text that
\* starts like a lap time.
detectChannelOf(header) ==
    IF header.kind = "empty" THEN "null"
    ELSE IF header.kind = "laptime" THEN "null"
    ELSE scanChannels(normalizedOf(header), CHANNEL_MAPPINGS)

NoHeader == [kind |-> "null"]

\* The loop of buildChannelMapping over the headers, as it is and without the test that
\* the channel is still unmatched.
RECURSIVE matchHeaders(_, _)
RECURSIVE matchHeaders_LastWins(_, _)
matchHeaders_LastWins(headers, mapping) ==
    IF headers = <<>> THEN mapping
    ELSE LET header == headers[1]
             channel == IF header.kind = "empty" THEN "null" ELSE detectChannelOf(header)
         IN IF channel /= "null"
            THEN matchHeaders_LastWins(Tail(headers),
                     [mapping EXCEPT ![channel] = [header |-> header, status |-> "matched"]])
            ELSE matchHeaders_LastWins(Tail(headers), mapping)

matchHeaders(headers, mapping) ==
    IF headers = <<>> THEN mapping
    ELSE LET header == headers[1]
             channel == IF header.kind = "empty" THEN "null" ELSE detectChannelOf(header)
         IN IF channel /= "null" /\ mapping[channel].status = "unmatched"
            THEN matchHeaders(Tail(headers),
                     [mapping EXCEPT ![channel] = [header |-> header, status |-> "matched"]])
            ELSE matchHeaders(Tail(headers), mapping)

buildChannelMapping(headers) ==
    matchHeaders(headers, [c \in ChannelNames |-> [header |-> NoHeader, status |-> "unmatched"]])

\* ---- inputs of the mapping ----
MaxHeaders == 3
HeaderKinds ==
    { Header(<<"time">>, "plain"), Header(<<"time">>, "padded"),
      Header(<<"lap", " ", "time">>, "plain"),
      Header(<<"gps_", "speed">>, "plain"),
      Header(<<"engine", " ", "speed">>, "plain"),
      Header(<<"rpm">>, "plain"), Header(<<"rpm">>, "upper"),
      Header(<<"temperature", " ", "2">>, "plain"),
      Header(<<"lap">>, "plain"),
      Header(<<"beacon">>, "plain"),
      [kind |-> "laptime", text |-> <<"0:58.4">>, form |-> "plain"],
      [kind |-> "empty", text |-> <<>>, form |-> "plain"] }

\* buildChannelMapping on the cells of a header row.
BuildChannelMappingCall ==
    /\ mapCase = NoCase
    /\ \E n \in 1..MaxHeaders :
         \E headers \in [1..n -> HeaderKinds] :
           mapCase' = [op |-> "buildChannelMapping", headers |-> headers,
                       mapping |-> buildChannelMapping(headers)]
    /\ UNCHANGED <<engineVars, hookVars, callVars, sensorCase, syncVars, managerVars, dbVars, acquisition>>

MappingNext == BuildChannelMappingCall

\* buildChannelMapping evaluated once on one header row.
SpecMapping == Init /\ [][MappingNext]_vars

\* The channels one of whose aliases a header equals or contains.
CandidateChannels(header) ==
    IF header.kind /= "text" THEN {}
    ELSE {k \in 1..Len(CHANNEL_MAPPINGS) :
            \E a \in 1..Len(CHANNEL_MAPPINGS[k].aliases) :
                includes(header.text, CHANNEL_MAPPINGS[k].aliases[a])}

\* The headers that resolve to a channel: it is the earliest of their candidates.
ResolvingHeaders(headers, k) ==
    {i \in 1..Len(headers) :
        k \in CandidateChannels(headers[i])
            /\ \A j \in CandidateChannels(headers[i]) : k <= j}

\* C23: every channel is mapped to the first header that resolves to it, a header with
\* several candidate channels resolving to the earliest of them in the order of the
\* channel list; a channel no header resolves to is unmatched with no header.
C23_FirstResolvingHeaderWins ==
    mapCase.op = "buildChannelMapping" =>
        \A k \in 1..Len(CHANNEL_MAPPINGS) :
            LET resolving == ResolvingHeaders(mapCase.headers, k)
                entry == mapCase.mapping[CHANNEL_MAPPINGS[k].channel]
            IN IF resolving = {}
               THEN entry = [header |-> NoHeader, status |-> "unmatched"]
               ELSE /\ entry.status = "matched"
                    /\ entry.header =
                          mapCase.headers[CHOOSE i \in resolving : \A j \in resolving : i <= j]

\* "engine speed" taken by speed ahead of a later speed header, and rpm left to "RPM".
C23_Witness ==
    /\ mapCase.op = "buildChannelMapping"
    /\ Len(mapCase.headers) = 3
    /\ mapCase.headers[1] = Header(<<"engine", " ", "speed">>, "plain")
    /\ mapCase.headers[2] = Header(<<"gps_", "speed">>, "plain")
    /\ mapCase.headers[3] = Header(<<"rpm">>, "upper")
    /\ mapCase.mapping["speed"].header = mapCase.headers[1]
    /\ mapCase.mapping["rpm"].header = mapCase.headers[3]
    /\ mapCase.mapping["time"].status = "unmatched"

\* C24: the metadata of a parsed file is the metadata of the rows strictly above its
\* header row, whatever rows are skipped between the header and the data.
C24_MetadataFromRowsAboveHeader ==
    (csvCase.op = "parseCSV" /\ csvCase.result.status = "ok") =>
        csvCase.result.metadata =
            parseAIMMetadata(SubSeq(csvCase.allRows, 1, csvCase.result.headerRow))

\* C25: when the laps come from the lap channel or from the boundaries of the metadata,
\* lap 0 is an out-lap and the last lap is an in-lap exactly when the laps come from the
\* lap channel and its lap time exceeds 90 s; otherwise there is one lap, neither
\* out-lap nor in-lap.
C25_OutLapAndInLapFlags ==
    lapCase.op = "extractLaps" =>
        LET laps == lapCase.laps
            fromChannel == Len(lapCase.lapMarkers) > 0
            fromMetadata == ~fromChannel /\ Len(lapCase.metadata.segmentTimes) > 0
            last == laps[Len(laps)]
        IN /\ Len(laps) >= 1
           /\ (fromChannel \/ fromMetadata) =>
                 /\ laps[1].index = 0 /\ laps[1].isOutLap
                 /\ last.isInLap <=> (fromChannel /\ Exceeds(last.lapTime, 900))
           /\ ~(fromChannel \/ fromMetadata) =>
                 (Len(laps) = 1 /\ ~laps[1].isOutLap /\ ~laps[1].isInLap)

\* Two laps of the lap channel, the last one longer than 90 s.
C25_Witness ==
    /\ lapCase.op = "extractLaps"
    /\ Len(lapCase.lapMarkers) = 2
    /\ Len(lapCase.laps) = 2
    /\ lapCase.laps[1].isOutLap /\ ~lapCase.laps[1].isInLap
    /\ lapCase.laps[2].isInLap /\ ~lapCase.laps[2].isOutLap
    /\ Exceeds(lapCase.laps[2].lapTime, 900)

(***************************************************************************)
(* Offline mutation queue (useOfflineSync) of a signed-in user.  A queued  *)
(* mutation is its id and its retry count.                                 *)
(***************************************************************************)
MaxMutations == 3
MaxSyncRuns == 2

\* savePendingMutations
savePendingMutations(mutations) ==
    /\ pendingMutations' = mutations
    /\ pendingCount' = Len(mutations)

\* queueMutation: read the stored queue, push, store.
QueueMutation ==
    /\ mutationCount < MaxMutations
    /\ mutationCount' = mutationCount + 1
    /\ savePendingMutations(Append(pendingMutations,
                                   [id |-> mutationCount + 1, retries |-> 0]))
    /\ UNCHANGED <<isOnline, syncStatus, syncRuns, processedMutations>>
    /\ UNCHANGED <<engineVars, hookVars, callVars, sensorCase, mapCase, managerVars, dbVars, acquisition>>

\* syncPendingMutations up to its first await: with nothing pending the loop body never
\* runs and the empty failed list is stored at once.
SyncPendingMutations ==
    /\ isOnline
    /\ Len(syncRuns) < MaxSyncRuns
    /\ IF pendingMutations = <<>>
       THEN /\ savePendingMutations(<<>>)
            /\ syncStatus' = "idle"
            /\ UNCHANGED syncRuns
       ELSE /\ syncRuns' = Append(syncRuns, [pending |-> pendingMutations, i |-> 1,
                                              failed |-> <<>>])
            /\ syncStatus' = "syncing"
            /\ UNCHANGED <<pendingMutations, pendingCount>>
    /\ UNCHANGED <<isOnline, mutationCount, processedMutations>>
    /\ UNCHANGED <<engineVars, hookVars, callVars, sensorCase, mapCase, managerVars, dbVars, acquisition>>

\* The timer of processMutation fires for the run r: the loop goes on to the next
\* mutation, or stores the failed list after the last one.
ProcessMutationResolved ==
    /\ \E r \in 1..Len(syncRuns) :
        LET run == syncRuns[r] IN
        /\ processedMutations' = processedMutations \cup {run.pending[run.i].id}
        /\ IF run.i < Len(run.pending)
           THEN /\ syncRuns' = [syncRuns EXCEPT ![r].i = run.i + 1]
                /\ UNCHANGED <<pendingMutations, pendingCount, syncStatus>>
           ELSE /\ syncRuns' = SubSeq(syncRuns, 1, r - 1) \o SubSeq(syncRuns, r + 1, Len(syncRuns))
                /\ savePendingMutations(run.failed)
                /\ syncStatus' = IF Len(run.failed) > 0 THEN "error" ELSE "idle"
    /\ UNCHANGED <<isOnline, mutationCount>>
    /\ UNCHANGED <<engineVars, hookVars, callVars, sensorCase, mapCase, managerVars, dbVars, acquisition>>

\* The window's online and offline events.
HandleOnline ==
    /\ ~isOnline
    /\ isOnline' = TRUE
    /\ UNCHANGED <<pendingMutations, pendingCount, syncStatus, syncRuns, mutationCount,
                   processedMutations>>
    /\ UNCHANGED <<engineVars, hookVars, callVars, sensorCase, mapCase, managerVars, dbVars, acquisition>>

HandleOffline ==
    /\ isOnline
    /\ isOnline' = FALSE
    /\ UNCHANGED <<pendingMutations, pendingCount, syncStatus, syncRuns, mutationCount,
                   processedMutations>>
    /\ UNCHANGED <<engineVars, hookVars, callVars, sensorCase, mapCase, managerVars, dbVars, acquisition>>

OfflineSyncNext ==
    \/ QueueMutation
    \/ SyncPendingMutations
    \/ ProcessMutationResolved
    \/ HandleOnline
    \/ HandleOffline

\* The offline queue under any interleaving of its callers and timers.
SpecOfflineSync == Init /\ [][OfflineSyncNext]_vars

\* The ids in the stored queue.
QueuedIds(queue) == {queue[k].id : k \in 1..Len(queue)}

\* C26: every mutation queued so far is in the stored queue or has been processed, and
\* a mutation leaves the stored queue only once it has been processed.
C26_NoMutationLost ==
    /\ [](\A id \in 1..mutationCount :
            id \in QueuedIds(pendingMutations) \/ id \in processedMutations)
    /\ [][\A id \in QueuedIds(pendingMutations) :
            id \notin QueuedIds(pendingMutations') => id \in processedMutations']_vars

(***************************************************************************)
(* SyncManager of the iOS app.  A local session is its sync status, the    *)
(* number of sample chunks it holds and the server id stored with it (0:   *)
(* none); a server session records the local session it was created for.  *)
(***************************************************************************)
MaxSessions == 2
MaxServerSessions == 3
MaxSessionRuns == 2

\* saveSensorSession up to its first await: the session is stored as pending.
SaveSensorSession ==
    /\ Len(localSessions) < MaxSessions
    /\ \E chunks \in {0, 1} :
         localSessions' = Append(localSessions,
                                 [syncStatus |-> "pending", chunks |-> chunks, convexId |-> 0])
    /\ UNCHANGED <<serverSessions, sessionRuns, managerStatus>>
    /\ UNCHANGED <<engineVars, hookVars, callVars, sensorCase, mapCase, syncVars, dbVars, acquisition>>

\* The stored sessions whose status is pending or failed, in storage order.
RECURSIVE pendingFrom(_, _)
pendingFrom(sessions, k) ==
    IF k > Len(sessions) THEN <<>>
    ELSE (IF sessions[k].syncStatus \in {"pending", "failed"} THEN <<k>> ELSE <<>>)
            \o pendingFrom(sessions, k + 1)

\* syncPendingSessions up to its first service call (isOnline is never set to false).
SyncPendingSessions ==
    /\ Len(sessionRuns) < MaxSessionRuns
    /\ LET pendingSessions == pendingFrom(localSessions, 1)
       IN IF pendingSessions = <<>>
          THEN /\ managerStatus' = "idle"
               /\ UNCHANGED sessionRuns
          ELSE /\ managerStatus' = "syncing"
               /\ sessionRuns' = Append(sessionRuns,
                                        [sessions |-> pendingSessions, pos |-> 1,
                                         convexId |-> 0, uploaded |-> 0])
    /\ UNCHANGED <<localSessions, serverSessions>>
    /\ UNCHANGED <<engineVars, hookVars, callVars, sensorCase, mapCase, syncVars, dbVars, acquisition>>

\* The end of syncSession for the run r: the session is marked synced and saved, and the
\* loop goes on to the next session or ends.
finishSession(r, convexId) ==
    LET run == sessionRuns[r]
        session == run.sessions[run.pos]
    IN /\ localSessions' = [localSessions EXCEPT ![session].syncStatus = "synced",
                                                  ![session].convexId = convexId]
       /\ IF run.pos < Len(run.sessions)
          THEN /\ sessionRuns' = [sessionRuns EXCEPT ![r].pos = run.pos + 1,
                                                     ![r].convexId = 0,
                                                     ![r].uploaded = 0]
               /\ UNCHANGED managerStatus
          ELSE /\ sessionRuns' = SubSeq(sessionRuns, 1, r - 1)
                                    \o SubSeq(sessionRuns, r + 1, Len(sessionRuns))
               /\ managerStatus' = "idle"

\* createSensorSession returns the id of a new server session.
CreateSensorSessionResolved ==
    /\ Len(serverSessions) < MaxServerSessions
    /\ \E r \in 1..Len(sessionRuns) :
        LET run == sessionRuns[r]
            session == run.sessions[run.pos]
            convexId == Len(serverSessions) + 1
        IN /\ run.convexId = 0
           /\ serverSessions' = Append(serverSessions, [localSession |-> session])
           /\ IF localSessions[session].chunks = 0
              THEN finishSession(r, convexId)
              ELSE /\ sessionRuns' = [sessionRuns EXCEPT ![r].convexId = convexId]
                   /\ UNCHANGED <<localSessions, managerStatus>>
    /\ UNCHANGED <<engineVars, hookVars, callVars, sensorCase, mapCase, syncVars, dbVars, acquisition>>

\* uploadSampleChunk returns.
UploadSampleChunkResolved ==
    /\ \E r \in 1..Len(sessionRuns) :
        LET run == sessionRuns[r]
            session == run.sessions[run.pos]
        IN /\ run.convexId /= 0
           /\ IF run.uploaded + 1 < localSessions[session].chunks
              THEN /\ sessionRuns' = [sessionRuns EXCEPT ![r].uploaded = run.uploaded + 1]
                   /\ UNCHANGED <<localSessions, managerStatus>>
              ELSE finishSession(r, run.convexId)
    /\ UNCHANGED serverSessions
    /\ UNCHANGED <<engineVars, hookVars, callVars, sensorCase, mapCase, syncVars, dbVars, acquisition>>

\* The service call a run is suspended in throws: the catch block of
\* syncPendingSessions ends the run.
ServiceCallFailed ==
    /\ \E r \in 1..Len(sessionRuns) :
        /\ sessionRuns' = SubSeq(sessionRuns, 1, r - 1)
                             \o SubSeq(sessionRuns, r + 1, Len(sessionRuns))
        /\ managerStatus' = "error"
    /\ UNCHANGED <<localSessions, serverSessions>>
    /\ UNCHANGED <<engineVars, hookVars, callVars, sensorCase, mapCase, syncVars, dbVars, acquisition>>

ManagerNext ==
    \/ SaveSensorSession
    \/ SyncPendingSessions
    \/ CreateSensorSessionResolved
    \/ UploadSampleChunkResolved
    \/ ServiceCallFailed

\* The sync manager under any order of saves, syncs and service outcomes.
SpecManager == Init /\ [][ManagerNext]_vars

\* C27: every locally saved session has at most one session on the server.
C27_AtMostOneServerSession ==
    \A session \in 1..Len(localSessions) :
        Cardinality({k \in 1..Len(serverSessions) :
                        serverSessions[k].localSession = session}) <= 1

(***************************************************************************)
(* The Convex functions of the sensor sessions.  Every function runs as    *)
(* one transaction.  A session document is its owner, its name and its     *)
(* hasRawSamples flag (a deleted one is a tombstone); the timestamps and   *)
(* the recorded results are left out.  An array of samples is a sequence   *)
(* of runs [tag, start, stop): the samples start..stop-1 of the recording    *)
(* tag.                                                                    *)
(***************************************************************************)
MaxDbSessions == 2
MaxChunkDocs == 3
MaxCalls == 4
CHUNK_SIZE == 1000

\* The users table and the identities a call can come with.
users == <<[clerkId |-> "alice"], [clerkId |-> "bob"]>>
Identities == {"anonymous", "stranger", "alice", "bob"}
SessionIds == 1..MaxDbSessions
ChunkIndexes == {0, 1}
NoValue == [kind |-> "none"]
Deleted == [exists |-> FALSE]

Samples(tag, start, stop) ==
    IF start >= stop THEN <<>> ELSE <<[tag |-> tag, start |-> start, stop |-> stop]>>
lengthOf(samples) == IF samples = <<>> THEN 0 ELSE samples[1].stop - samples[1].start
slice(samples, start, stop) ==
    IF samples = <<>> THEN <<>>
    ELSE Samples(samples[1].tag, samples[1].start + start,
                 Min(samples[1].start + stop, samples[1].stop))
ChunkArrays == {Samples(1, 0, 500), Samples(2, 0, 500)}
RecordingArrays == {<<>>, Samples(1, 0, 1500)}

RECURSIVE firstUser(_, _)
firstUser(clerkId, k) ==
    IF k > Len(users) THEN 0
    ELSE IF users[k].clerkId = clerkId THEN k ELSE firstUser(clerkId, k + 1)

getAuthenticatedUserId(identity) ==
    IF identity = "anonymous" THEN [error |-> "Not authenticated", userId |-> 0]
    ELSE LET user == firstUser(identity, 1)
         IN IF user = 0 THEN [error |-> "User not found", userId |-> 0]
            ELSE [error |-> "", userId |-> user]

\* ctx.db.get(sessionId) is a document and the caller owns it.
ownedSession_AnyUser(userId, sessionId) ==
    /\ sessionId \in 1..Len(sensorSessions)
    /\ sensorSessions[sessionId].exists
ownedSession(userId, sessionId) ==
    /\ sessionId \in 1..Len(sensorSessions)
    /\ sensorSessions[sessionId].exists
    /\ sensorSessions[sessionId].userId = userId

\* The error the opening of every session function throws for this call ("": none).
sessionError(identity, sessionId) ==
    LET auth == getAuthenticatedUserId(identity)
    IN IF auth.error /= "" THEN auth.error
       ELSE IF ~ownedSession(auth.userId, sessionId) THEN "Sensor session not found"
       ELSE ""

\* A call that throws: the transaction writes nothing.
thrown(op, identity, sessionId, args, message) ==
    /\ dbCalls < MaxCalls
    /\ dbCalls' = dbCalls + 1
    /\ dbResult' = [op |-> op, identity |-> identity, sessionId |-> sessionId,
                    args |-> args, error |-> message, value |-> NoValue]
    /\ UNCHANGED <<sensorSessions, sensorSamples, chunkIds>>

returned(op, identity, sessionId, args, value) ==
    /\ dbCalls < MaxCalls
    /\ dbCalls' = dbCalls + 1
    /\ dbResult' = [op |-> op, identity |-> identity, sessionId |-> sessionId,
                    args |-> args, error |-> "", value |-> value]

\* withIndex("by_session_chunk", sensorSessionId): the chunks of a session.
chunksOf(table, sessionId) ==
    SelectSeq(table, LAMBDA doc : doc.sensorSessionId = sessionId)
withoutChunksOf(table, sessionId) ==
    SelectSeq(table, LAMBDA doc : doc.sensorSessionId /= sessionId)

\* The index order: by chunkIndex, then by creation.
RECURSIVE insertChunk(_, _)
insertChunk(sorted, doc) ==
    IF sorted = <<>> THEN <<doc>>
    ELSE IF doc.chunkIndex < sorted[Len(sorted)].chunkIndex
         THEN Append(insertChunk(SubSeq(sorted, 1, Len(sorted) - 1), doc), sorted[Len(sorted)])
         ELSE Append(sorted, doc)
RECURSIVE inIndexOrder(_, _)
inIndexOrder(docs, sorted) ==
    IF docs = <<>> THEN sorted ELSE inIndexOrder(Tail(docs), insertChunk(sorted, docs[1]))

RECURSIVE flatSamples(_)
flatSamples(chunks) ==
    IF chunks = <<>> THEN <<>> ELSE chunks[1].samples \o flatSamples(Tail(chunks))

\* withIndex("by_session_chunk", sensorSessionId, chunkIndex).first(): the position of
\* the first such chunk (0: none).
RECURSIVE firstChunk(_, _, _, _)
firstChunk(table, sessionId, chunkIndex, k) ==
    IF k > Len(table) THEN 0
    ELSE IF table[k].sensorSessionId = sessionId /\ table[k].chunkIndex = chunkIndex THEN k
    ELSE firstChunk(table, sessionId, chunkIndex, k + 1)

create ==
    /\ Len(sensorSessions) < MaxDbSessions
    /\ \E identity \in Identities, storeRawSamples \in BOOLEAN :
        LET auth == getAuthenticatedUserId(identity)
            sessionId == Len(sensorSessions) + 1
            args == [name |-> "run", storeRawSamples |-> storeRawSamples]
        IN IF auth.error /= "" THEN thrown("create", identity, 0, args, auth.error)
           ELSE /\ sensorSessions' = Append(sensorSessions,
                                            [exists |-> TRUE, userId |-> auth.userId,
                                             name |-> "run",
                                             hasRawSamples |-> storeRawSamples])
                /\ returned("create", identity, 0, args, [kind |-> "id", id |-> sessionId])
                /\ UNCHANGED <<sensorSamples, chunkIds>>
    /\ UNCHANGED <<engineVars, hookVars, callVars, sensorCase, mapCase, syncVars, managerVars, acquisition>>

get ==
    /\ \E identity \in Identities, sessionId \in SessionIds :
        LET refusal == sessionError(identity, sessionId)
        IN IF refusal /= "" THEN thrown("get", identity, sessionId, NoValue, refusal)
           ELSE /\ returned("get", identity, sessionId, NoValue,
                            [kind |-> "session", session |-> sensorSessions[sessionId]])
                /\ UNCHANGED <<sensorSessions, sensorSamples, chunkIds>>
    /\ UNCHANGED <<engineVars, hookVars, callVars, sensorCase, mapCase, syncVars, managerVars, acquisition>>

getWithSamples ==
    /\ \E identity \in Identities, sessionId \in SessionIds :
        LET refusal == sessionError(identity, sessionId)
        IN IF refusal /= "" THEN thrown("getWithSamples", identity, sessionId, NoValue, refusal)
           ELSE LET session == sensorSessions[sessionId]
                    chunks == inIndexOrder(chunksOf(sensorSamples, sessionId), <<>>)
                    samples == IF ~session.hasRawSamples THEN <<>> ELSE flatSamples(chunks)
                IN /\ returned("getWithSamples", identity, sessionId, NoValue,
                               [kind |-> "session", session |-> session, samples |-> samples])
                   /\ UNCHANGED <<sensorSessions, sensorSamples, chunkIds>>
    /\ UNCHANGED <<engineVars, hookVars, callVars, sensorCase, mapCase, syncVars, managerVars, acquisition>>

rename ==
    /\ \E identity \in Identities, sessionId \in SessionIds :
        LET refusal == sessionError(identity, sessionId)
            args == [name |-> "best"]
        IN IF refusal /= "" THEN thrown("rename", identity, sessionId, args, refusal)
           ELSE /\ sensorSessions' = [sensorSessions EXCEPT ![sessionId].name = "best"]
                /\ returned("rename", identity, sessionId, args, NoValue)
                /\ UNCHANGED <<sensorSamples, chunkIds>>
    /\ UNCHANGED <<engineVars, hookVars, callVars, sensorCase, mapCase, syncVars, managerVars, acquisition>>

remove ==
    /\ \E identity \in Identities, sessionId \in SessionIds :
        LET refusal == sessionError(identity, sessionId)
        IN IF refusal /= "" THEN thrown("remove", identity, sessionId, NoValue, refusal)
           ELSE /\ sensorSamples' = withoutChunksOf(sensorSamples, sessionId)
                /\ sensorSessions' = [sensorSessions EXCEPT ![sessionId] = Deleted]
                /\ returned("remove", identity, sessionId, NoValue, NoValue)
                /\ UNCHANGED chunkIds
    /\ UNCHANGED <<engineVars, hookVars, callVars, sensorCase, mapCase, syncVars, managerVars, acquisition>>

deleteRawSamples ==
    /\ \E identity \in Identities, sessionId \in SessionIds :
        LET refusal == sessionError(identity, sessionId)
        IN IF refusal /= "" THEN thrown("deleteRawSamples", identity, sessionId, NoValue, refusal)
           ELSE /\ sensorSamples' = withoutChunksOf(sensorSamples, sessionId)
                /\ sensorSessions' = [sensorSessions EXCEPT ![sessionId].hasRawSamples = FALSE]
                /\ returned("deleteRawSamples", identity, sessionId, NoValue, NoValue)
                /\ UNCHANGED chunkIds
    /\ UNCHANGED <<engineVars, hookVars, callVars, sensorCase, mapCase, syncVars, managerVars, acquisition>>

\* The write of uploadChunk: the table after it and the id it returns.
storeChunk_AlwaysInsert(table, sessionId, chunkIndex, samples, nextId) ==
    [table |-> Append(table, [id |-> nextId, sensorSessionId |-> sessionId,
                              chunkIndex |-> chunkIndex, samples |-> samples]),
     id |-> nextId]
storeChunk(table, sessionId, chunkIndex, samples, nextId) ==
    LET existingChunk == firstChunk(table, sessionId, chunkIndex, 1)
    IN IF existingChunk /= 0
       THEN [table |-> [table EXCEPT ![existingChunk].samples = samples],
             id |-> table[existingChunk].id]
       ELSE [table |-> Append(table, [id |-> nextId, sensorSessionId |-> sessionId,
                                      chunkIndex |-> chunkIndex, samples |-> samples]),
             id |-> nextId]

uploadChunk ==
    /\ chunkIds < MaxChunkDocs
    /\ \E identity \in Identities, sessionId \in SessionIds,
          chunkIndex \in ChunkIndexes, samples \in ChunkArrays :
        LET refusal == sessionError(identity, sessionId)
            args == [chunkIndex |-> chunkIndex, samples |-> samples]
        IN IF refusal /= "" THEN thrown("uploadChunk", identity, sessionId, args, refusal)
           ELSE LET stored == storeChunk(sensorSamples, sessionId, chunkIndex, samples,
                                         chunkIds + 1)
                IN /\ sensorSamples' = stored.table
                   /\ chunkIds' = IF stored.id = chunkIds + 1 THEN chunkIds + 1 ELSE chunkIds
                   /\ returned("uploadChunk", identity, sessionId, args,
                               [kind |-> "id", id |-> stored.id])
                   /\ UNCHANGED sensorSessions
    /\ UNCHANGED <<engineVars, hookVars, callVars, sensorCase, mapCase, syncVars, managerVars, acquisition>>

getChunk ==
    /\ \E identity \in Identities, sessionId \in SessionIds, chunkIndex \in ChunkIndexes :
        LET refusal == sessionError(identity, sessionId)
            args == [chunkIndex |-> chunkIndex]
        IN IF refusal /= "" THEN thrown("getChunk", identity, sessionId, args, refusal)
           ELSE LET found == firstChunk(sensorSamples, sessionId, chunkIndex, 1)
                IN /\ returned("getChunk", identity, sessionId, args,
                               IF found = 0 THEN [kind |-> "null"]
                               ELSE [kind |-> "chunk", chunk |-> sensorSamples[found]])
                   /\ UNCHANGED <<sensorSessions, sensorSamples, chunkIds>>
    /\ UNCHANGED <<engineVars, hookVars, callVars, sensorCase, mapCase, syncVars, managerVars, acquisition>>

\* The chunks i.. of uploadAllSamples, the first of them inserted with the id nextId.
RECURSIVE chunksFrom(_, _, _, _, _)
chunksFrom(sessionId, samples, i, totalChunks, nextId) ==
    IF i >= totalChunks THEN <<>>
    ELSE <<[id |-> nextId, sensorSessionId |-> sessionId, chunkIndex |-> i,
            samples |-> slice(samples, i * CHUNK_SIZE,
                              Min((i + 1) * CHUNK_SIZE, lengthOf(samples)))]>>
            \o chunksFrom(sessionId, samples, i + 1, totalChunks, nextId + 1)

uploadAllSamples ==
    /\ \E identity \in Identities, sessionId \in SessionIds, samples \in RecordingArrays :
        LET refusal == sessionError(identity, sessionId)
            args == [samples |-> samples]
            totalChunks == (lengthOf(samples) + CHUNK_SIZE - 1) \div CHUNK_SIZE
        IN /\ chunkIds + totalChunks <= MaxChunkDocs
           /\ IF refusal /= "" THEN thrown("uploadAllSamples", identity, sessionId, args, refusal)
              ELSE /\ sensorSamples' = withoutChunksOf(sensorSamples, sessionId)
                                         \o chunksFrom(sessionId, samples, 0, totalChunks,
                                                       chunkIds + 1)
                   /\ chunkIds' = chunkIds + totalChunks
                   /\ sensorSessions' = [sensorSessions EXCEPT ![sessionId].hasRawSamples = TRUE]
                   /\ returned("uploadAllSamples", identity, sessionId, args,
                               [kind |-> "count", count |-> totalChunks])
    /\ UNCHANGED <<engineVars, hookVars, callVars, sensorCase, mapCase, syncVars, managerVars, acquisition>>

DatabaseNext ==
    \/ create
    \/ get
    \/ getWithSamples
    \/ rename
    \/ remove
    \/ deleteRawSamples
    \/ uploadChunk
    \/ getChunk
    \/ uploadAllSamples

\* The database under any sequence of calls of the session functions.
SpecDatabase == Init /\ [][DatabaseNext]_vars

SessionFunctions ==
    {"get", "getWithSamples", "rename", "remove", "deleteRawSamples", "uploadChunk",
     "uploadAllSamples", "getChunk"}

\* The caller is a user, the session exists and belongs to another user.
NotOwner(identity, sessionId) ==
    LET auth == getAuthenticatedUserId(identity)
    IN /\ auth.error = ""
       /\ sessionId \in 1..Len(sensorSessions)
       /\ sensorSessions[sessionId].exists
       /\ sensorSessions[sessionId].userId /= auth.userId

\* C28: a session function called by a user who does not own the session fails with
\* "Sensor session not found", returns nothing and leaves both tables as they were.
C28_NonOwnerIsRefused ==
    [][(dbResult'.op \in SessionFunctions /\ NotOwner(dbResult'.identity, dbResult'.sessionId))
          => /\ dbResult'.error = "Sensor session not found"
             /\ dbResult'.value = NoValue
             /\ sensorSessions' = sensorSessions
             /\ sensorSamples' = sensorSamples]_vars

\* A user was refused the removal of another user's session, which holds chunks.
C28_Witness ==
    /\ dbResult.op = "remove"
    /\ dbResult.error = "Sensor session not found"
    /\ NotOwner(dbResult.identity, dbResult.sessionId)
    /\ chunksOf(sensorSamples, dbResult.sessionId) /= <<>>

\* C29: no two stored chunks have the same session and chunk index, and after an
\* uploadChunk the one chunk of that session and index holds the uploaded samples.
C29_ChunkUploadIdempotent ==
    /\ [](\A i, j \in 1..Len(sensorSamples) :
             (/\ sensorSamples[i].sensorSessionId = sensorSamples[j].sensorSessionId
              /\ sensorSamples[i].chunkIndex = sensorSamples[j].chunkIndex) => i = j)
    /\ [][(dbResult'.op = "uploadChunk" /\ dbResult'.error = "")
            => \A k \in 1..Len(sensorSamples') :
                  (/\ sensorSamples'[k].sensorSessionId = dbResult'.sessionId
                   /\ sensorSamples'[k].chunkIndex = dbResult'.args.chunkIndex)
                     => sensorSamples'[k].samples = dbResult'.args.samples]_vars

\* A chunk index was uploaded again with other samples: the id returned is that of an
\* older chunk, which now holds the samples of recording 2.
C29_Witness ==
    /\ dbResult.op = "uploadChunk"
    /\ dbResult.error = ""
    /\ dbResult.value.id < chunkIds
    /\ dbResult.args.samples = Samples(2, 0, 500)
    /\ \E k \in 1..Len(sensorSamples) :
          /\ sensorSamples[k].id = dbResult.value.id
          /\ sensorSamples[k].samples = Samples(2, 0, 500)

(***************************************************************************)
(* The acquisition store: setFileData.  RPM values are whole numbers; a    *)
(* lap is its index, its time and its out-lap and in-lap flags.           *)
(***************************************************************************)
MaxRpmValues == 3
RpmValues == {-100, 0, 300, 500, 7400, 12600, 25000}
Repeats == {1, 10}

StoreLap(index, lapTime, isOutLap, isInLap) ==
    [index |-> index, lapTime |-> lapTime, isOutLap |-> isOutLap, isInLap |-> isInLap]
LapLists ==
    {<<>>,
     <<StoreLap(0, 70, TRUE, FALSE), StoreLap(1, 62, FALSE, FALSE),
       StoreLap(2, 60, FALSE, FALSE), StoreLap(3, 62, FALSE, FALSE),
       StoreLap(4, 90, FALSE, TRUE)>>,
     <<StoreLap(0, 70, TRUE, FALSE), StoreLap(1, 66, FALSE, FALSE),
       StoreLap(2, 65, FALSE, FALSE), StoreLap(3, 64, FALSE, FALSE),
       StoreLap(4, 63, FALSE, FALSE), StoreLap(5, 62, FALSE, FALSE),
       StoreLap(6, 61, FALSE, FALSE), StoreLap(7, 90, FALSE, TRUE)>>}

\* Every value of the sequence `times` times in a row.
RECURSIVE repeated(_, _)
repeated(values, times) ==
    IF values = <<>> THEN <<>>
    ELSE [k \in 1..times |-> values[1]] \o repeated(Tail(values), times)

\* sort((a, b) => a - b) on numbers.
RECURSIVE insertNumber(_, _)
insertNumber(sorted, x) ==
    IF sorted = <<>> THEN <<x>>
    ELSE IF x < sorted[Len(sorted)]
         THEN Append(insertNumber(SubSeq(sorted, 1, Len(sorted) - 1), x), sorted[Len(sorted)])
         ELSE Append(sorted, x)
RECURSIVE sortNumbers(_, _)
sortNumbers(values, sorted) ==
    IF values = <<>> THEN sorted ELSE sortNumbers(Tail(values), insertNumber(sorted, values[1]))

\* sort((a, b) => a.lapTime - b.lapTime): stable.
RECURSIVE insertLap(_, _)
insertLap(sorted, lap) ==
    IF sorted = <<>> THEN <<lap>>
    ELSE IF lap.lapTime < sorted[Len(sorted)].lapTime
         THEN Append(insertLap(SubSeq(sorted, 1, Len(sorted) - 1), lap), sorted[Len(sorted)])
         ELSE Append(sorted, lap)
RECURSIVE sortLaps(_, _)
sortLaps(laps, sorted) ==
    IF laps = <<>> THEN sorted ELSE sortLaps(Tail(laps), insertLap(sorted, laps[1]))

bestLaps(laps, count) ==
    LET sortedLaps == sortLaps(SelectSeq(laps, LAMBDA lap : ~lap.isOutLap /\ ~lap.isInLap), <<>>)
        best == SubSeq(sortedLaps, 1, Min(count, Len(sortedLaps)))
    IN [k \in 1..Len(best) |-> best[k].index]

\* The RPM window setFileData detects in the rpm channel.
detectRpmRange(rpm) ==
    LET validRpms == SelectSeq(rpm, LAMBDA r : r > 0 /\ r < 25000)
    IN IF validRpms = <<>> THEN [minRpm |-> 8000, maxRpm |-> 16000]
       ELSE LET sortedRpms == sortNumbers(validRpms, <<>>)
                p5Index == (Len(sortedRpms) * 5) \div 100
                p95Index == (Len(sortedRpms) * 95) \div 100
            IN [minRpm |-> Max(1000, (sortedRpms[p5Index + 1] \div 500) * 500 - 500),
                maxRpm |-> ((sortedRpms[p95Index + 1] + 499) \div 500) * 500 + 500]

\* What setFileData stores does not depend on the state it is called in: one call.
setFileData ==
    /\ ~acquisition.loaded
    /\ \E laps \in LapLists, n \in 0..MaxRpmValues, times \in Repeats :
       \E values \in [1..n -> RpmValues] :
        LET rpm == repeated(values, times)
            detected == detectRpmRange(rpm)
        IN acquisition' = [loaded |-> TRUE, rpm |-> rpm, laps |-> laps,
                           selectedLaps |-> bestLaps(laps, 5),
                           minRpm |-> detected.minRpm, maxRpm |-> detected.maxRpm]
    /\ UNCHANGED <<engineVars, hookVars, callVars, sensorCase, mapCase, syncVars, managerVars, dbVars>>

StoreNext ==
    \/ setFileData

\* The store under any sequence of loaded files.
SpecStore == Init /\ [][StoreNext]_vars

\* C30: after setFileData the RPM window is positive and not empty: 0 < minRpm < maxRpm.
C30_DetectedWindowIsProper ==
    acquisition.loaded => (0 < acquisition.minRpm /\ acquisition.minRpm < acquisition.maxRpm)

====
